---- MODULE Spec2Model ----
(***************************************************************************)
(* Model of the diagram interchange engine of drawio2mermaid:              *)
(*   src/src/converters/mermaidParser.js    Mermaid text -> graph          *)
(*   src/src/converters/mermaidToDrawio.js  layout + Draw.io serializer    *)
(*   src/src/converters/drawioParser.js     Draw.io XML -> graph           *)
(*   src/src/converters/drawioToMermaid.js  classifier + Mermaid output    *)
(*                                                                         *)
(* A text is a sequence of one-character strings, a Mermaid document is a  *)
(* sequence of lines (the result of code.split('\n')).  JavaScript string  *)
(* indices are 0-based; the model's are 1-based, 0 meaning "no match".     *)
(***************************************************************************)
EXTENDS Integers, Sequences, FiniteSets, TLC

VARIABLES
    call,    \* the API function applied last ("none" before the first call)
    origin,  \* what the author of the Mermaid input wrote (NoSource for a Draw.io run)
    code,    \* Mermaid text held: the input of a Mermaid call, or a Mermaid output
    xml,     \* Draw.io document held: an input document or a generated one
    opts,    \* options of convertDrawioToMermaid: direction, diagramType
    clock,   \* the readings Date.now() returns, in call order
    graph,   \* the graph returned by the parser that ran last
    out,     \* outcome of the last call: status, error kind, emitted edges, text
    ret,     \* what decodeDrawioContent or getDrawioPages returned, and for which page
    lay,     \* calculateNodePositions in progress: its locals and its position
    embed    \* the module variables of drawioEmbed.js, its promises, timers and messages

vars == <<call, origin, code, xml, opts, clock, graph, out, ret, lay, embed>>

----------------------------------------------------------------------------
(* Characters and elementary string functions                              *)

UpperSeq == <<"A","B","C","D","E","F","G","H","I","J","K","L","M",
              "N","O","P","Q","R","S","T","U","V","W","X","Y","Z">>
LowerSeq == <<"a","b","c","d","e","f","g","h","i","j","k","l","m",
              "n","o","p","q","r","s","t","u","v","w","x","y","z">>
Upper == {UpperSeq[i] : i \in 1..26}
Lower == {LowerSeq[i] : i \in 1..26}
Digit == {"0","1","2","3","4","5","6","7","8","9"}
DigitSeq == <<"0","1","2","3","4","5","6","7","8","9">>
IdStart == Upper \cup Lower \cup {"_"}
IdChar == IdStart \cup Digit
WhiteSpace == {" ", "\t"}

MinOf(S) == CHOOSE m \in S : \A k \in S : m <= k
MaxOf(S) == CHOOSE m \in S : \A k \in S : m >= k

\* String.prototype.toLowerCase, one character
LowerChar(c) == IF c \in Upper THEN LowerSeq[CHOOSE i \in 1..26 : UpperSeq[i] = c] ELSE c
ToLowerCase(s) == [i \in 1..Len(s) |-> LowerChar(s[i])]

\* String.prototype.trim
TrimKept(s, keep) == IF keep = {} THEN <<>> ELSE SubSeq(s, MinOf(keep), MaxOf(keep))
Trim(s) == TrimKept(s, {i \in 1..Len(s) : s[i] \notin WhiteSpace})

\* s.startsWith(lit) at position i (1-based)
LitAt(s, i, lit) == /\ i >= 1
                    /\ i + Len(lit) - 1 <= Len(s)
                    /\ SubSeq(s, i, i + Len(lit) - 1) = lit
StartsWith(s, lit) == LitAt(s, 1, lit)

\* s.includes(lit)
Includes(s, lit) == \E i \in 1..(Len(s) + 1) : LitAt(s, i, lit)

\* Array.prototype.join of texts
RECURSIVE Join(_, _)
Join(parts, sep) ==
    IF parts = <<>> THEN <<>>
    ELSE IF Len(parts) = 1 THEN parts[1]
    ELSE parts[1] \o sep \o Join(Tail(parts), sep)

\* decimal text of a small natural number (template literal `${n}`)
RECURSIVE NatToText(_)
NatToText(n) == IF n < 10 THEN <<DigitSeq[n + 1]>>
                ELSE NatToText(n \div 10) \o <<DigitSeq[(n % 10) + 1]>>

\* /^([A-Za-z_][A-Za-z0-9_]*)/ : the leading identifier, <<>> when there is none
Before(s, stop) == IF stop = {} THEN s ELSE SubSeq(s, 1, MinOf(stop) - 1)
IdPrefix(s) ==
    IF s = <<>> \/ s[1] \notin IdStart THEN <<>>
    ELSE Before(s, {i \in 2..Len(s) : s[i] \notin IdChar})

\* /^([^-=]+)/ : the leading run without '-' and '=', <<>> when it is empty
NoDashPrefix(s) == Before(s, {i \in 1..Len(s) : s[i] \in {"-", "="}})

NoMatch == [index |-> 0, length |-> 0, label |-> <<>>]

\* regex  <lit> : leftmost occurrence
LitMatch(hits, length) ==
    IF hits = {} THEN NoMatch ELSE [index |-> MinOf(hits), length |-> length, label |-> <<>>]
MatchLit(s, lit) == LitMatch({i \in 1..Len(s) : LitAt(s, i, lit)}, Len(lit))

\* end of the greedy run [^x]+ starting at k: the first position >= k holding x
\* (0 when the run is empty or x never comes)
FirstOrZero(hits) == IF hits = {} THEN 0 ELSE MinOf(hits)
RunEnd(s, k, x) ==
    IF k > Len(s) \/ s[k] = x THEN 0 ELSE FirstOrZero({j \in k..Len(s) : s[j] = x})

\* regex  <open>([^x]+)<close>  where close begins with x : leftmost match
ClosedAt(s, j, close) == j # 0 /\ LitAt(s, j, close)
BracketAt(s, i, open, x, close) ==
    LitAt(s, i, open) /\ ClosedAt(s, RunEnd(s, i + Len(open), x), close)

BracketMatch(s, open, close, i, j) ==
    [index |-> i, length |-> j + Len(close) - i, label |-> SubSeq(s, i + Len(open), j - 1)]
BracketMatchAmong(s, open, x, close, hits) ==
    IF hits = {} THEN NoMatch
    ELSE BracketMatch(s, open, close, MinOf(hits), RunEnd(s, MinOf(hits) + Len(open), x))
MatchBracket(s, open, x, close) ==
    BracketMatchAmong(s, open, x, close, {i \in 1..Len(s) : BracketAt(s, i, open, x, close)})

----------------------------------------------------------------------------
(* Mermaid parser: src/src/converters/mermaidParser.js                     *)

nodePatterns == <<
    [open |-> <<"[">>,      x |-> "]", close |-> <<"]">>,      shape |-> "rectangle"],
    [open |-> <<"(">>,      x |-> ")", close |-> <<")">>,      shape |-> "rounded"],
    [open |-> <<"(", "[">>, x |-> "]", close |-> <<"]", ")">>, shape |-> "stadium"],
    [open |-> <<"[", "[">>, x |-> "]", close |-> <<"]", "]">>, shape |-> "subroutine"],
    [open |-> <<"[", "(">>, x |-> ")", close |-> <<")", "]">>, shape |-> "cylinder"],
    [open |-> <<"{", "{">>, x |-> "}", close |-> <<"}", "}">>, shape |-> "hexagon"],
    [open |-> <<"{">>,      x |-> "}", close |-> <<"}">>,      shape |-> "diamond"],
    [open |-> <<"(", "(">>, x |-> ")", close |-> <<")", ")">>, shape |-> "circle"],
    [open |-> <<">">>,      x |-> "]", close |-> <<"]">>,      shape |-> "asymmetric"],
    [open |-> <<"[", "/">>, x |-> "/", close |-> <<"/", "]">>, shape |-> "parallelogram"] >>

edgePatterns == <<
    [lit |-> <<"-", "-", ">">>,      type |-> "arrow",  hasLabel |-> TRUE],
    [lit |-> <<"-", "-", ">">>,      type |-> "arrow",  hasLabel |-> FALSE],
    [lit |-> <<"-", "-", "-">>,      type |-> "line",   hasLabel |-> TRUE],
    [lit |-> <<"-", "-", "-">>,      type |-> "line",   hasLabel |-> FALSE],
    [lit |-> <<"-", ".", "-", ">">>, type |-> "dotted", hasLabel |-> TRUE],
    [lit |-> <<"-", ".", "-", ">">>, type |-> "dotted", hasLabel |-> FALSE],
    [lit |-> <<"=", "=", ">">>,      type |-> "thick",  hasLabel |-> TRUE],
    [lit |-> <<"=", "=", ">">>,      type |-> "thick",  hasLabel |-> FALSE] >>

\* line.match(pattern.regex) for one edge pattern
MatchEdge(s, p) ==
    IF p.hasLabel THEN MatchBracket(s, p.lit \o <<"|">>, "|", <<"|">>)
    ELSE MatchLit(s, p.lit)

\* the loop of parseFlowchartLine over edgePatterns: the k-th pattern replaces the
\* current choice when it matches and there is no choice yet or its match starts
\* strictly earlier (match.index < edgeIndex)
EdgeMatchIndex(line, k) == MatchEdge(line, edgePatterns[k]).index
EdgeChoice(line, k) == [pattern |-> k, m |-> MatchEdge(line, edgePatterns[k])]
NoEdgeChoice == [pattern |-> 0, m |-> NoMatch]

\* a loop in which a match starting at the same index also replaces the choice
ReplacesOnTie(line, k, best) ==
    /\ EdgeMatchIndex(line, k) # 0
    /\ (best.pattern = 0 \/ EdgeMatchIndex(line, k) <= best.m.index)

Replaces(line, k, best) ==
    /\ EdgeMatchIndex(line, k) # 0
    /\ (best.pattern = 0 \/ EdgeMatchIndex(line, k) < best.m.index)
RECURSIVE FindEdgeFrom(_, _, _)
FindEdgeFrom(line, k, best) ==
    IF k > Len(edgePatterns) THEN best
    ELSE FindEdgeFrom(line, k + 1, IF Replaces(line, k, best) THEN EdgeChoice(line, k) ELSE best)
FindEdge(line) == FindEdgeFrom(line, 1, NoEdgeChoice)

NoNode == [ok |-> FALSE, id |-> <<>>, label |-> <<>>, shape |-> "rectangle"]

\* the first node pattern (in declaration order) that matches part, 0 when none does
NodePatternMatch(part, p) == MatchBracket(part, p.open, p.x, p.close)
NodePatternOf(part) ==
    FirstOrZero({k \in 1..Len(nodePatterns) : NodePatternMatch(part, nodePatterns[k]).index # 0})

\* does parseNodeFromPart(part) read Date.now()?
NodeReadsClock(part) ==
    Trim(part) # <<>> /\ NodePatternOf(part) # 0 /\ IdPrefix(part) = <<>>

\* parseNodeFromPart; now is what Date.now() returns if it is read
ShapedNode(part, p, id, now) ==
    [ok |-> TRUE, id |-> IF id # <<>> THEN id ELSE <<"n","o","d","e","_", now>>,
     label |-> Trim(NodePatternMatch(part, p).label), shape |-> p.shape]
PlainIdNode(id) ==
    IF id # <<>> THEN [ok |-> TRUE, id |-> id, label |-> id, shape |-> "rectangle"]
    ELSE NoNode
NodeByPattern(part, k, now) ==
    IF k # 0 THEN ShapedNode(part, nodePatterns[k], IdPrefix(part), now)
    ELSE PlainIdNode(IdPrefix(part))
parseNodeFromPart(part, now) ==
    IF Trim(part) = <<>> THEN NoNode ELSE NodeByPattern(part, NodePatternOf(part), now)

\* the parser's working state: nodes is the Map's values in insertion order, cur is
\* the index in subgraphs of currentSubgraph (0 = null), clk the pending clock readings
EmptyParse(clk) == [nodes |-> <<>>, edges |-> <<>>, subgraphs |-> <<>>, cur |-> 0, clk |-> clk]

NodeOf(n) == [id |-> n.id, label |-> n.label, shape |-> n.shape]

\* nodes.has(id)
HasNode(nodes, id) == \E i \in 1..Len(nodes) : nodes[i].id = id

Now(st) == Head(st.clk)

\* the clock after parseNodeFromPart(part) ran
Tick(st, part) ==
    IF NodeReadsClock(part) /\ Len(st.clk) > 1 THEN [st EXCEPT !.clk = Tail(@)] ELSE st

\* a registration that does not look the id up first
RegisterDup(st, node) ==
    IF ~node.ok THEN st
    ELSE [st EXCEPT !.nodes = Append(@, NodeOf(node))]

\* a registration in which the last mention of an id wins
RegisterLast(st, node) ==
    IF ~node.ok THEN st
    ELSE IF HasNode(st.nodes, node.id)
    THEN [st EXCEPT !.nodes = [i \in 1..Len(@) |-> IF @[i].id = node.id THEN NodeOf(node) ELSE @[i]]]
    ELSE [st EXCEPT !.nodes = Append(@, NodeOf(node))]

\* if (node && !nodes.has(node.id)) { nodes.set(...); currentSubgraph?.nodes.push(...) }
Register(st, node) ==
    IF ~node.ok \/ HasNode(st.nodes, node.id) THEN st
    ELSE IF st.cur = 0 THEN [st EXCEPT !.nodes = Append(@, NodeOf(node))]
    ELSE [st EXCEPT !.nodes = Append(@, NodeOf(node)),
                    !.subgraphs[st.cur].nodes = Append(@, node.id)]

EdgeId(n) == <<"e", "d", "g", "e", "_">> \o NatToText(n)

\* edges.push({id: `edge_${edges.length}`, source, target, label, type})
PushEdge(st, source, target, label, type) ==
    [st EXCEPT !.edges = Append(@, [id |-> EdgeId(Len(st.edges)), source |-> source,
                                    target |-> target, label |-> label, type |-> type])]

\* pattern.regex.test(part) for some edge pattern
HasEdgePattern(part) == FindEdge(part).pattern # 0

RECURSIVE parseFlowchartLine(_, _)
RECURSIVE parseChainedTargets(_, _)

\* parseChainedTargets: the state after it and the nodes it returns
ChainReturned(st1, node) == [st |-> st1, result |-> IF node.ok THEN <<node>> ELSE <<>>]
\* a recursive case that returns no node, so that the hop into the chain is not linked
ChainFirstNone(st1, first) == [st |-> st1, result |-> <<>>]
\* the recursive case: the line is parsed, then the first part alone gives the result
ChainFirst(st1, first) ==
    IF first = <<>> THEN [st |-> st1, result |-> <<>>]
    ELSE ChainReturned(Tick(st1, Trim(first)), parseNodeFromPart(Trim(first), Now(st1)))
ChainSingle(part, st, node) == ChainReturned(Register(Tick(st, part), node), node)
parseChainedTargets(part, st) ==
    IF HasEdgePattern(part)
    THEN ChainFirst(parseFlowchartLine(part, st), NoDashPrefix(part))
    ELSE ChainSingle(part, st, parseNodeFromPart(part, Now(st)))

\* parseFlowchartLine: the state after one flowchart line
\* edges.push when the source node and a first target exist
LineLinked(p, m, sourceNode, r) ==
    IF sourceNode.ok /\ r.result # <<>>
    THEN PushEdge(r.st, sourceNode.id, r.result[1].id,
                  IF p.hasLabel THEN m.label ELSE <<>>, p.type)
    ELSE r.st
LineFrom(st, e, sourcePart, targetPart, sourceNode) ==
    LineLinked(edgePatterns[e.pattern], e.m, sourceNode,
               parseChainedTargets(targetPart, Register(Tick(st, sourcePart), sourceNode)))
LineSplit(st, e, sourcePart, targetPart) ==
    LineFrom(st, e, sourcePart, targetPart, parseNodeFromPart(sourcePart, Now(st)))
LineWith(line, st, e) ==
    IF e.pattern # 0
    THEN LineSplit(st, e, Trim(SubSeq(line, 1, e.m.index - 1)),
                   Trim(SubSeq(line, e.m.index + e.m.length, Len(line))))
    ELSE Register(Tick(st, line), parseNodeFromPart(line, Now(st)))
parseFlowchartLine(line, st) == LineWith(line, st, FindEdge(line))

Directions == { <<"T","B">>, <<"T","D">>, <<"B","T">>, <<"R","L">>, <<"L","R">> }
SubgraphWord == <<"s","u","b","g","r","a","p","h">>

\* line.match(/subgraph\s+(\S+)(?:\s*\[([^\]]+)\])?/): the subgraph record, or ok = FALSE
SubgraphMatch(line) ==
    LET \* positions where "subgraph", white space and a non-space character follow
        hits == {i \in 1..Len(line) :
                    /\ LitAt(line, i, SubgraphWord)
                    /\ i + 8 <= Len(line) /\ line[i + 8] \in WhiteSpace
                    /\ \E j \in (i + 9)..Len(line) :
                          /\ line[j] \notin WhiteSpace
                          /\ \A k \in (i + 8)..(j - 1) : line[k] \in WhiteSpace}
        Found(id, lab) == [ok |-> TRUE, id |-> id, label |-> IF lab # <<>> THEN lab ELSE id]
        Label(rest, c) == IF c # 0 /\ BracketAt(rest, c, <<"[">>, "]", <<"]">>)
                          THEN SubSeq(rest, c + 1, RunEnd(rest, c + 1, "]") - 1)
                          ELSE <<>>
        LabelIn(rest, nonsp) == Label(rest, IF nonsp = {} THEN 0 ELSE MinOf(nonsp))
        After(rest) == LabelIn(rest, {j \in 1..Len(rest) : rest[j] \notin WhiteSpace})
        Id(a, b) == Found(SubSeq(line, a, b), After(SubSeq(line, b + 1, Len(line))))
        IdEnd(a, sp) == Id(a, IF sp = {} THEN Len(line) ELSE MinOf(sp) - 1)
        IdFrom(a) == IdEnd(a, {j \in a..Len(line) : line[j] \in WhiteSpace})
        At(i) == IdFrom(MinOf({j \in (i + 9)..Len(line) : line[j] \notin WhiteSpace}))
    IN IF hits = {} THEN [ok |-> FALSE, id |-> <<>>, label |-> <<>>]
       ELSE At(MinOf(hits))

\* one iteration of the for loop of parseFlowchart
OpenSubgraph(st, m) ==
    IF m.ok
    THEN [st EXCEPT !.subgraphs = Append(@, [id |-> m.id, label |-> m.label, nodes |-> <<>>]),
                    !.cur = Len(st.subgraphs) + 1]
    ELSE st
FlowchartStep(line, st) ==
    IF line \in Directions THEN st
    ELSE IF StartsWith(line, SubgraphWord) THEN OpenSubgraph(st, SubgraphMatch(line))
    ELSE IF line = <<"e", "n", "d">> THEN [st EXCEPT !.cur = 0]
    ELSE parseFlowchartLine(line, st)

RECURSIVE FlowchartLoop(_, _, _)
FlowchartLoop(lines, i, st) ==
    IF i > Len(lines) THEN st ELSE FlowchartLoop(lines, i + 1, FlowchartStep(lines[i], st))

\* parseFlowchart(lines): lines[0] (here lines[1]) is the header and is not parsed
ParsedGraph(st, subgraphs) == [nodes |-> st.nodes, edges |-> st.edges, subgraphs |-> subgraphs]
FlowchartGraph(st) == ParsedGraph(st, st.subgraphs)
parseFlowchart(lines, clk) == FlowchartGraph(FlowchartLoop(lines, 2, EmptyParse(clk)))


----------------------------------------------------------------------------
(* Sequence and class sub-parsers                                          *)

\* first position >= k that holds no white space (Len(s) + 1 when there is none): \s*
SkipSpace(s, k) == Len(Before(s, {j \in k..Len(s) : s[j] \notin WhiteSpace})) + 1

\* last position of the greedy run \S+ starting at k (k - 1 when the run is empty)
NonSpaceEnd(s, k) == Len(Before(s, {j \in k..Len(s) : s[j] \in WhiteSpace}))

\* /<word>\s+(\S+)(?:\s+as\s+(.+))?/ : participant and actor declarations;
\* fold = TRUE compares case-insensitively (the i flag)
DeclMatch(line, word, fold) ==
    LET Found(t, a, b, c, d) ==
            [ok |-> TRUE, id |-> SubSeq(line, a, b),
             label |-> IF c > b + 1 /\ LitAt(t, c, <<"a", "s">>) /\ d > c + 2 /\ d <= Len(line)
                       THEN SubSeq(line, d, Len(line)) ELSE SubSeq(line, a, b)]
        As(t, a, b, c) == Found(t, a, b, c, SkipSpace(line, c + 2))
        IdEnd(t, a, b) == As(t, a, b, SkipSpace(line, b + 1))
        IdAt(t, a) == IdEnd(t, a, NonSpaceEnd(line, a))
        Among(t, hits) ==
            IF hits = {} THEN [ok |-> FALSE, id |-> <<>>, label |-> <<>>]
            ELSE IdAt(t, SkipSpace(line, MinOf(hits) + Len(word)))
        In(t) == Among(t, {i \in 1..Len(line) :
                              /\ LitAt(t, i, word)
                              /\ i + Len(word) <= Len(line)
                              /\ line[i + Len(word)] \in WhiteSpace
                              /\ SkipSpace(line, i + Len(word)) <= Len(line)})
    IN In(IF fold THEN ToLowerCase(line) ELSE line)

MessageArrows == << <<"-", ">", ">">>, <<"-", "-", ">", ">">>, <<"-", ">">>,
                    <<"-", "-", ">">>, <<"-">> >>

RelationOps == << <<"<", "|", "-", "-">>, <<"-", "-", "|", ">">>, <<"<", "-", "-">>,
                  <<"*", "-", "-">>, <<"o", "-", "-">>, <<"-", "-", ">">>,
                  <<"-", "-", "*">>, <<"-", "-", "o">>, <<"-", "-">> >>

\* the target (\S+) of a message line starting at q: its last position b, the longest
\* run end after which \s*: follows with at least one more character; 0 when none
MessageTargetEnd(line, q) ==
    LET ok == {b \in q..NonSpaceEnd(line, q) :
                  /\ SkipSpace(line, b + 1) <= Len(line)
                  /\ line[SkipSpace(line, b + 1)] = ":"
                  /\ SkipSpace(line, b + 1) < Len(line)}
    IN IF ok = {} THEN 0 ELSE MaxOf(ok)

\* /(\S+)\s*(->>|-->>|->|-->|-)>\s*(\S+)\s*:\s*(.+)/
MessageMatch(line) ==
    LET \* <<i, a, k>>: the source is line[i..a], the arrow alternative is k
        cand == {c \in (1..Len(line)) \X (1..Len(line)) \X (1..Len(MessageArrows)) :
                    /\ c[1] <= c[2]
                    /\ \A j \in c[1]..c[2] : line[j] \notin WhiteSpace
                    /\ LET At(p, e) ==
                               /\ LitAt(line, p, MessageArrows[c[3]])
                               /\ LitAt(line, e, <<">">>)
                               /\ SkipSpace(line, e + 1) <= Len(line)
                               /\ MessageTargetEnd(line, SkipSpace(line, e + 1)) # 0
                           From(p) == At(p, p + Len(MessageArrows[c[3]]))
                       IN From(SkipSpace(line, c[2] + 1))}
        Found(i, a, q, b, r) ==
            [ok |-> TRUE, source |-> SubSeq(line, i, a), target |-> SubSeq(line, q, b),
             label |-> IF SkipSpace(line, r + 1) <= Len(line)
                       THEN SubSeq(line, SkipSpace(line, r + 1), Len(line))
                       ELSE SubSeq(line, Len(line), Len(line))]
        Target(i, a, q, b) == Found(i, a, q, b, SkipSpace(line, b + 1))
        Arrow(i, a, q) == Target(i, a, q, MessageTargetEnd(line, q))
        Alternative(i, a, k) ==
            Arrow(i, a, SkipSpace(line, SkipSpace(line, a + 1) + Len(MessageArrows[k]) + 1))
        SourceEnd(cs, i, a) ==
            Alternative(i, a, MinOf({c[3] : c \in {d \in cs : d[1] = i /\ d[2] = a}}))
        SourceStart(cs, i) == SourceEnd(cs, i, MaxOf({c[2] : c \in {d \in cs : d[1] = i}}))
        Among(cs) ==
            IF cs = {} THEN [ok |-> FALSE, source |-> <<>>, target |-> <<>>, label |-> <<>>]
            ELSE SourceStart(cs, MinOf({c[1] : c \in cs}))
    IN Among(cand)

\* /(\S+)\s*(<\|--|--\|>|<--|\*--|o--|-->|--\*|--o|--)\s*(\S+)(?:\s*:\s*(.+))?/
RelationMatch(line) ==
    LET cand == {c \in (1..Len(line)) \X (1..Len(line)) \X (1..Len(RelationOps)) :
                    /\ c[1] <= c[2]
                    /\ \A j \in c[1]..c[2] : line[j] \notin WhiteSpace
                    /\ LET At(p) ==
                               /\ LitAt(line, p, RelationOps[c[3]])
                               /\ SkipSpace(line, p + Len(RelationOps[c[3]])) <= Len(line)
                       IN At(SkipSpace(line, c[2] + 1))}
        Found(i, a, q, b, r) ==
            [ok |-> TRUE, source |-> SubSeq(line, i, a), target |-> SubSeq(line, q, b),
             label |-> IF ~(r < Len(line) /\ line[r] = ":") THEN <<>>
                       ELSE IF SkipSpace(line, r + 1) <= Len(line)
                       THEN SubSeq(line, SkipSpace(line, r + 1), Len(line))
                       ELSE SubSeq(line, Len(line), Len(line))]
        Target(i, a, q, b) == Found(i, a, q, b, SkipSpace(line, b + 1))
        Operator(i, a, q) == Target(i, a, q, NonSpaceEnd(line, q))
        Alternative(i, a, k) ==
            Operator(i, a, SkipSpace(line, SkipSpace(line, a + 1) + Len(RelationOps[k])))
        SourceEnd(cs, i, a) ==
            Alternative(i, a, MinOf({c[3] : c \in {d \in cs : d[1] = i /\ d[2] = a}}))
        SourceStart(cs, i) == SourceEnd(cs, i, MaxOf({c[2] : c \in {d \in cs : d[1] = i}}))
        Among(cs) ==
            IF cs = {} THEN [ok |-> FALSE, source |-> <<>>, target |-> <<>>, label |-> <<>>]
            ELSE SourceStart(cs, MinOf({c[1] : c \in cs}))
    IN Among(cand)

\* if (!participants.has(id)) { participants.add(id); nodes.push({id, label, shape}) }
AddOnce(st, id, label, shape) ==
    IF HasNode(st.nodes, id) THEN st
    ELSE [st EXCEPT !.nodes = Append(@, [id |-> id, label |-> label, shape |-> shape])]

\* one iteration of the for loop of parseSequenceDiagram
MessageStep(st, mm) ==
    IF mm.ok
    THEN PushEdge(AddOnce(AddOnce(st, mm.source, mm.source, "rectangle"),
                          mm.target, mm.target, "rectangle"),
                  mm.source, mm.target, mm.label, "arrow")
    ELSE st
ActorStep(line, st, am) ==
    IF am.ok THEN AddOnce(st, am.id, am.label, "circle") ELSE MessageStep(st, MessageMatch(line))
ParticipantStep(line, st, pm) ==
    IF pm.ok THEN AddOnce(st, pm.id, pm.label, "rectangle")
    ELSE ActorStep(line, st, DeclMatch(line, <<"a","c","t","o","r">>, TRUE))
SequenceStep(line, st) ==
    ParticipantStep(line, st, DeclMatch(line, <<"p","a","r","t","i","c","i","p","a","n","t">>, TRUE))

\* one iteration of the for loop of parseClassDiagram
ClassDeclStep(line, st, cm) ==
    IF cm.ok THEN AddOnce(st, cm.id, cm.id, "rectangle") ELSE MessageStep(st, RelationMatch(line))
ClassStep(line, st) == ClassDeclStep(line, st, DeclMatch(line, <<"c","l","a","s","s">>, FALSE))

RECURSIVE SequenceLoop(_, _, _)
SequenceLoop(lines, i, st) ==
    IF i > Len(lines) THEN st ELSE SequenceLoop(lines, i + 1, SequenceStep(lines[i], st))

RECURSIVE ClassLoop(_, _, _)
ClassLoop(lines, i, st) ==
    IF i > Len(lines) THEN st ELSE ClassLoop(lines, i + 1, ClassStep(lines[i], st))

parseSequenceDiagram(lines) == ParsedGraph(SequenceLoop(lines, 2, EmptyParse(<<>>)), <<>>)

parseClassDiagram(lines) == ParsedGraph(ClassLoop(lines, 2, EmptyParse(<<>>)), <<>>)

----------------------------------------------------------------------------
(* parseMermaidCode                                                        *)

\* code.split('\n').map(l => l.trim()).filter(l => l && !l.startsWith('%%'))
IsContentLine(l) == l # <<>> /\ ~StartsWith(l, <<"%", "%">>)
ContentLines(text) == SelectSeq([i \in 1..Len(text) |-> Trim(text[i])], IsContentLine)

HeaderWords == <<
    [word |-> <<"f","l","o","w","c","h","a","r","t">>, type |-> "flowchart"],
    [word |-> <<"g","r","a","p","h">>, type |-> "flowchart"],
    [word |-> <<"s","e","q","u","e","n","c","e","d","i","a","g","r","a","m">>, type |-> "sequence"],
    [word |-> <<"c","l","a","s","s","d","i","a","g","r","a","m">>, type |-> "class"],
    [word |-> <<"s","t","a","t","e","d","i","a","g","r","a","m">>, type |-> "state"],
    [word |-> <<"e","r","d","i","a","g","r","a","m">>, type |-> "er"],
    [word |-> <<"g","a","n","t","t">>, type |-> "gantt"],
    [word |-> <<"p","i","e">>, type |-> "pie"] >>

\* the if/else chain over firstLine.startsWith(...); default 'flowchart'
HeaderType(hits) == IF hits = {} THEN "flowchart" ELSE HeaderWords[MinOf(hits)].type
DiagramTypeOf(firstLine) ==
    HeaderType({k \in 1..Len(HeaderWords) : StartsWith(ToLowerCase(firstLine), HeaderWords[k].word)})

\* parseMermaidCode(code): status "error" stands for the thrown Error
MermaidParsed(type, result) ==
    [status |-> "ok", error |-> "none", nodes |-> result.nodes,
     edges |-> result.edges, subgraphs |-> result.subgraphs, diagramType |-> type]
ParseByType(lines, clk, type) ==
    MermaidParsed(type, CASE type = "sequence" -> parseSequenceDiagram(lines)
                          [] type = "class" -> parseClassDiagram(lines)
                          [] OTHER -> parseFlowchart(lines, clk))
ParseLines(lines, clk) ==
    IF Len(lines) = 0
    THEN [status |-> "error", error |-> "EmptyMermaid", nodes |-> <<>>, edges |-> <<>>,
          subgraphs |-> <<>>, diagramType |-> "none"]
    ELSE ParseByType(lines, clk, DiagramTypeOf(lines[1]))
parseMermaidCode(text, clk) == ParseLines(ContentLines(text), clk)


----------------------------------------------------------------------------
(* Layout engine: calculateNodePositions, src/src/converters/mermaidToDrawio.js *)

nodeWidth == 120
nodeHeight == 60
horizontalSpacing == 180
verticalSpacing == 120
startX == 50
startY == 50
centerShift == 300
fallbackCoordinate == 100

InSeq(s, v) == \E i \in 1..Len(s) : s[i] = v
Ids(nodes) == [i \in 1..Len(nodes) |-> nodes[i].id]
SeqToSet(s) == {s[i] : i \in 1..Len(s)}

RECURSIVE Concat(_)
Concat(ss) == IF ss = <<>> THEN <<>> ELSE Head(ss) \o Concat(Tail(ss))

\* if (adjacency.has(edge.source) && adjacency.has(edge.target))
LayoutEdgeCounts(nodes, e) == HasNode(nodes, e.source) /\ HasNode(nodes, e.target)

\* adjacency.get(id): the targets of the counted edges leaving id, in edge order
Targets(es) == [i \in 1..Len(es) |-> es[i].target]
Adjacency(nodes, edges, id) ==
    Targets(SelectSeq(edges, LAMBDA e : LayoutEdgeCounts(nodes, e) /\ e.source = id))

\* an in-degree that counts every edge arriving at id, whatever its source
InDegreeAnySource(nodes, edges, id) ==
    Cardinality({i \in 1..Len(edges) : edges[i].target = id})

\* inDegree.get(id)
InDegree(nodes, edges, id) ==
    Cardinality({i \in 1..Len(edges) : LayoutEdgeCounts(nodes, edges[i]) /\ edges[i].target = id})

\* the root layer: nodes without incoming edge, else the first node
RootsOrFirst(nodes, roots) ==
    IF Len(roots) = 0 /\ Len(nodes) > 0 THEN <<nodes[1].id>> ELSE roots
FirstLayer(nodes, edges) ==
    RootsOrFirst(nodes, SelectSeq(Ids(nodes), LAMBDA id : InDegree(nodes, edges, id) = 0))

\* nextLayer.add(n) for the unvisited n of list: a Set keeps the first insertion
RECURSIVE AddUnvisited(_, _, _)
AddUnvisited(acc, list, visited) ==
    IF list = <<>> THEN acc
    ELSE AddUnvisited(IF Head(list) \in visited \/ InSeq(acc, Head(list))
                      THEN acc ELSE Append(acc, Head(list)),
                      Tail(list), visited)

\* the locals of calculateNodePositions when the while loop is first tested
LayoutBegin(nodes, edges) ==
    [nodes |-> nodes, edges |-> edges, layers |-> <<>>, visited |-> {},
     currentLayer |-> FirstLayer(nodes, edges), pc |-> "bfs", result |-> <<>>]

\* one iteration of  while (currentLayer.length > 0)
Neighbors(l) ==
    Concat([i \in 1..Len(l.currentLayer) |-> Adjacency(l.nodes, l.edges, l.currentLayer[i])])
Visit(l, visited) ==
    [l EXCEPT !.layers = Append(@, l.currentLayer),
              !.visited = visited,
              !.currentLayer = AddUnvisited(<<>>, Neighbors(l), visited)]
BfsIteration(l) == Visit(l, l.visited \cup SeqToSet(l.currentLayer))

\* nodes.forEach(node => { if (!visited.has(node.id)) ... }): the layers afterwards
RECURSIVE AppendRemaining(_, _, _)
PutLast(ls, id) == [ls EXCEPT ![Len(ls)] = Append(@, id)]
AppendRemaining(layers, ids, visited) ==
    IF ids = <<>> THEN layers
    ELSE IF Head(ids) \in visited THEN AppendRemaining(layers, Tail(ids), visited)
    ELSE AppendRemaining(PutLast(IF layers = <<>> THEN << <<>> >> ELSE layers, Head(ids)),
                         Tail(ids), visited)

\* a row whose nodes all get the offset of the first one
LayerXCollapsed(layer, nodeIndex) ==
    startX + centerShift + (horizontalSpacing \div 2 - (Len(layer) * horizontalSpacing) \div 2)

\* x and y of lines 119-124
LayerX(layer, nodeIndex) ==
    startX + centerShift + (horizontalSpacing \div 2 - (Len(layer) * horizontalSpacing) \div 2)
    + (nodeIndex - 1) * horizontalSpacing
LayerY(layerIndex) == startY + (layerIndex - 1) * verticalSpacing

\* positionMap.get(id): the last position set for id, present = FALSE when none
PositionAt(layers, li, at) ==
    [present |-> TRUE,
     x |-> LayerX(layers[li], MaxOf({p[2] : p \in {q \in at : q[1] = li}})),
     y |-> LayerY(li), layer |-> li]
PositionAmong(layers, at) ==
    IF at = {} THEN [present |-> FALSE, x |-> 0, y |-> 0, layer |-> 0]
    ELSE PositionAt(layers, MaxOf({p[1] : p \in at}), at)
PositionOf(layers, id) ==
    PositionAmong(layers,
        {p \in (1..Len(layers)) \X (1..MaxOf({Len(layers[i]) : i \in 1..Len(layers)} \cup {1})) :
            p[2] <= Len(layers[p[1]]) /\ layers[p[1]][p[2]] = id})

\* x: positionMap.get(node.id)?.x || 100   (undefined and 0 both give 100)
OrFallback(present, v) == IF present /\ v # 0 THEN v ELSE fallbackCoordinate

\* the returned nodes: {...node, x, y, width, height}
PositionedNode(node, p) ==
    [id |-> node.id, label |-> node.label, shape |-> node.shape,
     x |-> OrFallback(p.present, p.x), y |-> OrFallback(p.present, p.y),
     width |-> nodeWidth, height |-> nodeHeight]
Positioned(nodes, layers) ==
    [i \in 1..Len(nodes) |-> PositionedNode(nodes[i], PositionOf(layers, nodes[i].id))]

\* the statements after the while loop
Finished(l, layers) ==
    [l EXCEPT !.layers = layers, !.pc = "done", !.result = Positioned(l.nodes, layers)]
\* a return that leaves out the nodes the loop did not reach
LayoutFinishReached(l) == Finished(l, l.layers)
LayoutFinish(l) ==
    CHOOSE r \in {Finished(l, layers) :
                    layers \in {AppendRemaining(l.layers, Ids(l.nodes), l.visited)}} : TRUE

RECURSIVE LayoutRun(_)
LayoutRun(l) == IF Len(l.currentLayer) > 0 THEN LayoutRun(BfsIteration(l)) ELSE LayoutFinish(l)

\* calculateNodePositions(nodes, edges, diagramType)
calculateNodePositions(nodes, edges) == LayoutRun(LayoutBegin(nodes, edges)).result


----------------------------------------------------------------------------
(* Draw.io documents.                                                      *)
(* The XML reader (DOMParser) is an external collaborator; a document is   *)
(* modelled by what the reader reports of it:                              *)
(*   mxfile    cleanedContent.includes('<mxfile')                          *)
(*   outerOk   the reader finds no parsererror in the mxfile document      *)
(*   pages     the <diagram> elements, each with                           *)
(*     text        its textContent: "none" (empty), "blank" (white space), *)
(*                 "xml" (starts with '<'), "encoded" (anything else)      *)
(*     id, name    its attributes of these names                           *)
(*     decode      how far the decoders get with an encoded text:          *)
(*                 "inflated" (atob, pako.inflateRaw and decodeURIComponent*)
(*                 all return), "percent" (decodeURIComponent throws),     *)
(*                 "base64only" (inflateRaw throws) or "fail" (atob throws)*)
(*     wellFormed  whether the text obtained from it parses as XML         *)
(*     model       whether <diagram> has an <mxGraphModel> child element   *)
(*     cells       the mxCell / UserObject / object elements under it      *)
(* A document without <mxfile> is one pseudo page with text "xml".         *)
(* An element holds its attributes as written in the file (entities not    *)
(* yet decoded); an absent attribute and an empty one are both <<>> (""    *)
(* for the flags), which the code treats alike (!x, x || '').  inner is    *)
(* the mxCell wrapped by a UserObject/object element, if any.  A geometry  *)
(* attribute that is absent or not a number is 0 (parseFloat(..) || d).    *)

NoInner == [present |-> FALSE]
Inner(el) == [present |-> TRUE, el |-> el]
NoGeometry == [present |-> FALSE, x |-> 0, y |-> 0, width |-> 0, height |-> 0]

Element(tag, id, value, style, vertex, edge, parent, source, target, connectable, geo) ==
    [tag |-> tag, id |-> id, value |-> value, label |-> <<>>, style |-> style, vertex |-> vertex,
     edge |-> edge, parent |-> parent, source |-> source, target |-> target,
     connectable |-> connectable, geo |-> geo, inner |-> NoInner]

XmlEntities == <<
    [char |-> "&", entity |-> "&amp;"],
    [char |-> "<", entity |-> "&lt;"],
    [char |-> ">", entity |-> "&gt;"],
    [char |-> "\"", entity |-> "&quot;"],
    [char |-> "'", entity |-> "&apos;"] >>

\* escapeXml: each special character becomes its entity (one element of the text)
escapeXml(text) ==
    [i \in 1..Len(text) |->
        IF \E k \in 1..Len(XmlEntities) : XmlEntities[k].char = text[i]
        THEN XmlEntities[CHOOSE k \in 1..Len(XmlEntities) : XmlEntities[k].char = text[i]].entity
        ELSE text[i]]

\* the reader's getAttribute: entities decoded, white space normalized to a blank
XmlAttribute(text) ==
    [i \in 1..Len(text) |->
        IF \E k \in 1..Len(XmlEntities) : XmlEntities[k].entity = text[i]
        THEN XmlEntities[CHOOSE k \in 1..Len(XmlEntities) : XmlEntities[k].entity = text[i]].char
        ELSE IF text[i] \in {"\t", "\n"} THEN " " ELSE text[i]]

\* an attribute written between double quotes without escaping keeps the document
\* well-formed only if it holds none of  <  &  "
RawAttributeOk(text) == \A i \in 1..Len(text) : text[i] \notin {"<", "&", "\""}

baseStyle == <<"r","o","u","n","d","e","d","=","0",";","w","h","i","t","e","S","p","a","c","e","=","w","r","a","p",";","h","t","m","l","=","1",";">>

shapeStyles == <<
    [shape |-> "rectangle",     style |-> baseStyle],
    [shape |-> "rounded",       style |-> <<"r","o","u","n","d","e","d","=","1",";","w","h","i","t","e","S","p","a","c","e","=","w","r","a","p",";","h","t","m","l","=","1",";">>],
    [shape |-> "diamond",       style |-> <<"r","h","o","m","b","u","s",";","w","h","i","t","e","S","p","a","c","e","=","w","r","a","p",";","h","t","m","l","=","1",";">>],
    [shape |-> "circle",        style |-> <<"e","l","l","i","p","s","e",";","w","h","i","t","e","S","p","a","c","e","=","w","r","a","p",";","h","t","m","l","=","1",";">>],
    [shape |-> "cylinder",      style |-> <<"s","h","a","p","e","=","c","y","l","i","n","d","e","r","3",";","w","h","i","t","e","S","p","a","c","e","=","w","r","a","p",";","h","t","m","l","=","1",";","b","o","u","n","d","e","d","L","b","l","=","1",";">>],
    [shape |-> "hexagon",       style |-> <<"s","h","a","p","e","=","h","e","x","a","g","o","n",";","w","h","i","t","e","S","p","a","c","e","=","w","r","a","p",";","h","t","m","l","=","1",";">>],
    [shape |-> "parallelogram", style |-> <<"s","h","a","p","e","=","p","a","r","a","l","l","e","l","o","g","r","a","m",";","w","h","i","t","e","S","p","a","c","e","=","w","r","a","p",";","h","t","m","l","=","1",";">>],
    [shape |-> "stadium",       style |-> <<"r","o","u","n","d","e","d","=","1",";","w","h","i","t","e","S","p","a","c","e","=","w","r","a","p",";","h","t","m","l","=","1",";","a","r","c","S","i","z","e","=","5","0",";">>],
    [shape |-> "subroutine",    style |-> <<"s","h","a","p","e","=","p","r","o","c","e","s","s",";","w","h","i","t","e","S","p","a","c","e","=","w","r","a","p",";","h","t","m","l","=","1",";">>],
    [shape |-> "asymmetric",    style |-> <<"s","h","a","p","e","=","t","r","a","p","e","z","o","i","d",";","w","h","i","t","e","S","p","a","c","e","=","w","r","a","p",";","h","t","m","l","=","1",";">>] >>

\* getStyleForShape: shapeStyles[shape] || baseStyle
StyleAmong(hits) == IF hits = {} THEN baseStyle ELSE shapeStyles[MinOf(hits)].style
getStyleForShape(shape) == StyleAmong({k \in 1..Len(shapeStyles) : shapeStyles[k].shape = shape})

generatedEdgeStyle == <<"e","d","g","e","S","t","y","l","e","=","o","r","t","h","o","g","o","n","a","l","E","d","g","e","S","t","y","l","e",";","r","o","u","n","d","e","d","=","1",";","o","r","t","h","o","g","o","n","a","l","L","o","o","p","=","1",";","j","e","t","t","y","S","i","z","e","=","a","u","t","o",";","h","t","m","l","=","1",";">>

\* x: node.x || (index % 3) * 200 + 50 ; y: node.y || Math.floor(index / 3) * 150 + 50
\* (index is 0-based; i is the 1-based position)
NodeCell(node, i) ==
    Element("mxCell",
            IF node.id # <<>> THEN node.id ELSE <<"n","o","d","e","_">> \o NatToText(i - 1),
            escapeXml(node.label), getStyleForShape(node.shape), "1", "", <<"1">>, <<>>, <<>>, "",
            [present |-> TRUE,
             x |-> IF node.x # 0 THEN node.x ELSE ((i - 1) % 3) * 200 + 50,
             y |-> IF node.y # 0 THEN node.y ELSE ((i - 1) \div 3) * 150 + 50,
             width |-> IF node.width # 0 THEN node.width ELSE 120,
             height |-> IF node.height # 0 THEN node.height ELSE 60])

EdgeCell(e, i) ==
    Element("mxCell", IF e.id # <<>> THEN e.id ELSE <<"e","d","g","e","_">> \o NatToText(i - 1),
            escapeXml(e.label), generatedEdgeStyle, "", "1", <<"1">>, e.source, e.target, "",
            [present |-> TRUE, x |-> 0, y |-> 0, width |-> 0, height |-> 0])

RootCells == << Element("mxCell", <<"0">>, <<>>, <<>>, "", "", <<>>, <<>>, <<>>, "", NoGeometry),
                Element("mxCell", <<"1">>, <<>>, <<>>, "", "", <<"0">>, <<>>, <<>>, "", NoGeometry) >>

\* generateDrawioXML(nodes, edges): an <mxfile> with one <diagram> holding the
\* <mxGraphModel> as a child element, white space between the elements
GeneratedCells(nodes, edges) ==
    RootCells \o [i \in 1..Len(nodes) |-> NodeCell(nodes[i], i)]
              \o [i \in 1..Len(edges) |-> EdgeCell(edges[i], i)]

Document(cells) ==
    [mxfile |-> TRUE,
     outerOk |-> \A i \in 1..Len(cells) :
                     /\ RawAttributeOk(cells[i].id)
                     /\ RawAttributeOk(cells[i].source)
                     /\ RawAttributeOk(cells[i].target),
     pages |-> << [text |-> "blank", id |-> <<>>, name |-> <<"P","a","g","e","-","1">>,
                   decode |-> "base64only", wellFormed |-> FALSE,
                   model |-> TRUE, cells |-> cells] >>]
generateDrawioXML(nodes, edges) == Document(GeneratedCells(nodes, edges))

\* convertMermaidToDrawio(mermaidCode): every thrown Error is rethrown wrapped, so the
\* outcome is an error whenever a step throws
validEdges(positionedNodes, edges) ==
    SelectSeq(edges, LAMBDA e : HasNode(positionedNodes, e.source) /\ HasNode(positionedNodes, e.target))

ConvertReturned(g, status, error, positionedNodes, edges) ==
    [status |-> status, error |-> error, graph |-> g, positioned |-> positionedNodes,
     edges |-> edges, xml |-> generateDrawioXML(positionedNodes, edges)]
ConvertValid(g, positionedNodes) ==
    ConvertReturned(g, "ok", "none", positionedNodes, validEdges(positionedNodes, g.edges))
\* a conversion without the nodes.length === 0 test
ConvertUnchecked(g) ==
    IF g.status = "error"
    THEN ConvertReturned(g, "error", g.error, <<>>, <<>>)
    ELSE ConvertValid(g, calculateNodePositions(g.nodes, g.edges))
ConvertParsed(g) ==
    IF g.status = "error" \/ Len(g.nodes) = 0
    THEN ConvertReturned(g, "error", IF g.status = "error" THEN g.error ELSE "NoNodesMermaid",
                         <<>>, <<>>)
    ELSE ConvertValid(g, calculateNodePositions(g.nodes, g.edges))
convertMermaidToDrawio(text, clk) == ConvertParsed(parseMermaidCode(text, clk))


----------------------------------------------------------------------------
(* Draw.io parser: src/src/converters/drawioParser.js                      *)

styleMap == <<
    [key |-> <<"r","h","o","m","b","u","s">>,             shape |-> "diamond"],
    [key |-> <<"e","l","l","i","p","s","e">>,             shape |-> "circle"],
    [key |-> <<"r","o","u","n","d","e","d","=","1">>,           shape |-> "rounded"],
    [key |-> <<"s","h","a","p","e","=","p","a","r","a","l","l","e","l","o","g","r","a","m">>, shape |-> "parallelogram"],
    [key |-> <<"s","h","a","p","e","=","c","y","l","i","n","d","e","r">>,      shape |-> "cylinder"],
    [key |-> <<"s","h","a","p","e","=","h","e","x","a","g","o","n">>,       shape |-> "hexagon"],
    [key |-> <<"s","h","a","p","e","=","t","r","i","a","n","g","l","e">>,      shape |-> "triangle"],
    [key |-> <<"s","h","a","p","e","=","d","o","c","u","m","e","n","t">>,      shape |-> "document"],
    [key |-> <<"s","h","a","p","e","=","c","l","o","u","d">>,         shape |-> "cloud"],
    [key |-> <<"s","w","i","m","l","a","n","e">>,            shape |-> "subgraph"],
    [key |-> <<"s","h","a","p","e","=","p","r","o","c","e","s","s">>,       shape |-> "subroutine"] >>

\* parseShapeFromStyle: the first key of styleMap the style includes
ShapeAmong(style, hits) ==
    IF style = <<>> \/ hits = {} THEN "rectangle" ELSE styleMap[MinOf(hits)].shape
parseShapeFromStyle(style) ==
    ShapeAmong(style, {k \in 1..Len(styleMap) : Includes(style, styleMap[k].key)})

\* cleanLabel.  The HTML reader (innerHTML / textContent) is a browser facility; it is
\* modelled for markup of the form <...> without '>' inside, and for the entities below.
IsTagStart(c) == c \in Upper \cup Lower \cup {"/", "!", "?"}

\* /<br\s*\/?>/i on the text between '<' and '>'
BrEnds(rest, k) == k > Len(rest) \/ (k = Len(rest) /\ rest[k] = "/")
BrRest(rest) == BrEnds(rest, SkipSpace(rest, 1))
IsBr(inside) == StartsWith(inside, <<"b","r">>) /\ BrRest(SubSeq(inside, 3, Len(inside)))

RECURSIVE StripMarkup(_, _)
TagAt(s, i, j, inside) ==
    IF IsBr(inside) \/ StartsWith(inside, <<"d","i","v">>) \/ StartsWith(inside, <<"p">>)
    THEN <<"\n">> \o StripMarkup(s, j + 1)
    ELSE IF inside # <<>> /\ IsTagStart(inside[1])
    THEN StripMarkup(s, j + 1)
    ELSE <<"<">> \o StripMarkup(s, i + 1)
TagClosed(s, i, j) == TagAt(s, i, j, ToLowerCase(SubSeq(s, i + 1, j - 1)))
TagAmong(s, i, closing) ==
    IF closing = {}
    THEN IF i < Len(s) /\ IsTagStart(s[i + 1]) THEN <<>>
         ELSE <<"<">> \o StripMarkup(s, i + 1)
    ELSE TagClosed(s, i, MinOf(closing))
StripMarkup(s, i) ==
    IF i > Len(s) THEN <<>>
    ELSE IF s[i] # "<" THEN <<s[i]>> \o StripMarkup(s, i + 1)
    ELSE TagAmong(s, i, {j \in (i + 1)..Len(s) : s[j] = ">"})

HtmlEntities == <<
    [entity |-> <<"&","a","m","p",";">>,  char |-> "&"],
    [entity |-> <<"&","l","t",";">>,   char |-> "<"],
    [entity |-> <<"&","g","t",";">>,   char |-> ">"],
    [entity |-> <<"&","q","u","o","t",";">>, char |-> "\""],
    [entity |-> <<"&","a","p","o","s",";">>, char |-> "'"],
    [entity |-> <<"&","#","3","9",";">>,  char |-> "'"],
    [entity |-> <<"&","n","b","s","p",";">>, char |-> " "] >>

\* one pass of entity decoding
RECURSIVE DecodeEntities(_, _)
EntityAt(s, i, e) == <<e.char>> \o DecodeEntities(s, i + Len(e.entity))
EntityAmong(s, i, hits) ==
    IF hits = {} THEN <<s[i]>> \o DecodeEntities(s, i + 1)
    ELSE EntityAt(s, i, HtmlEntities[MinOf(hits)])
DecodeEntities(s, i) ==
    IF i > Len(s) THEN <<>>
    ELSE EntityAmong(s, i, {k \in 1..Len(HtmlEntities) : LitAt(s, i, HtmlEntities[k].entity)})

\* text.split('\n')
RECURSIVE SplitLines(_)
LinesAt(s, k) == <<SubSeq(s, 1, k - 1)>> \o SplitLines(SubSeq(s, k + 1, Len(s)))
LinesAmong(s, nl) == IF nl = {} THEN <<s>> ELSE LinesAt(s, MinOf(nl))
SplitLines(s) == LinesAmong(s, {i \in 1..Len(s) : s[i] = "\n"})

IsNonEmpty(l) == l # <<>>

\* the final replacements: " -> ' , [ -> ( , ] -> )
EscapeChar(c) == CASE c = "\"" -> "'" [] c = "[" -> "(" [] c = "]" -> ")" [] OTHER -> c

EscapeLabel(joined) == [i \in 1..Len(joined) |-> EscapeChar(joined[i])]
KeptLines(lines) ==
    EscapeLabel(Join(SelectSeq([i \in 1..Len(lines) |-> Trim(lines[i])], IsNonEmpty), <<"\n">>))
cleanLabel(html) ==
    IF html = <<>> THEN <<>>
    ELSE KeptLines(SplitLines(Trim(DecodeEntities(DecodeEntities(StripMarkup(html, 1), 1), 1))))

\* doc.querySelectorAll('mxCell, UserObject, object'): document order, a wrapped
\* mxCell following its wrapper
RECURSIVE cellElements(_)
cellElements(els) ==
    IF els = <<>> THEN <<>>
    ELSE (IF Head(els).inner.present
          THEN <<Head(els), Head(els).inner.el>>
          ELSE <<Head(els)>>) \o cellElements(Tail(els))

Or(a, b) == IF a # <<>> THEN a ELSE b
OrFlag(a, b) == IF a # "" THEN a ELSE b

\* the normalized record of one element (cells.push({...}))
NormalizeWith(el, wrapped, inner) ==
    [id |-> XmlAttribute(el.id),
     value |-> Or(XmlAttribute(el.value), XmlAttribute(el.label)),
     style |-> IF wrapped THEN Or(XmlAttribute(el.style), XmlAttribute(inner.el.style))
               ELSE XmlAttribute(el.style),
     vertex |-> IF wrapped THEN OrFlag(el.vertex, inner.el.vertex) ELSE el.vertex,
     edge |-> IF wrapped THEN OrFlag(el.edge, inner.el.edge) ELSE el.edge,
     parent |-> IF wrapped THEN Or(XmlAttribute(el.parent), XmlAttribute(inner.el.parent))
                ELSE XmlAttribute(el.parent),
     source |-> IF wrapped THEN Or(XmlAttribute(el.source), XmlAttribute(inner.el.source))
                ELSE XmlAttribute(el.source),
     target |-> IF wrapped THEN Or(XmlAttribute(el.target), XmlAttribute(inner.el.target))
                ELSE XmlAttribute(el.target),
     connectable |-> el.connectable,
     geo |-> IF el.geo.present THEN el.geo
             ELSE IF inner.present THEN inner.el.geo ELSE NoGeometry]
NormalizeCell(el) ==
    NormalizeWith(el, el.tag \in {"UserObject", "object"} /\ el.inner.present, el.inner)

\* getGeometry: parseFloat(...) || default
getGeometry(cell) ==
    [x |-> cell.geo.x, y |-> cell.geo.y,
     width |-> IF cell.geo.width # 0 THEN cell.geo.width ELSE 100,
     height |-> IF cell.geo.height # 0 THEN cell.geo.height ELSE 60]

IsRootParent(p) == p = <<"0">> \/ p = <<"1">>

\* first pass: allCellsMap.get(id) is the last cell carrying id
HasCell(cells, id) == \E i \in 1..Len(cells) : cells[i].id # <<>> /\ cells[i].id = id
CellOf(cells, id) == cells[MaxOf({i \in 1..Len(cells) : cells[i].id = id})]

\* first pass: is cell entered in groupChildren?
IsGroupChild(cell) == cell.id # <<>> /\ cell.parent # <<>> /\ ~IsRootParent(cell.parent)

\* the keys of groupChildren in insertion order
RECURSIVE GroupIds(_, _)
GroupIds(cells, acc) ==
    IF cells = <<>> THEN acc
    ELSE GroupIds(Tail(cells),
                  IF IsGroupChild(Head(cells)) /\ ~InSeq(acc, Head(cells).parent)
                  THEN Append(acc, Head(cells).parent) ELSE acc)

\* groupChildren.get(groupId), in document order
ChildrenOf(cells, groupId) ==
    SelectSeq(cells, LAMBDA c : IsGroupChild(c) /\ c.parent = groupId)

\* children.sort((a, b) => getGeometry(a).y - getGeometry(b).y): a stable sort
RECURSIVE InsertByY(_, _)
InsertByY(sorted, c) ==
    IF sorted = <<>> THEN <<c>>
    ELSE IF getGeometry(c).y < getGeometry(Head(sorted)).y THEN <<c>> \o sorted
    ELSE <<Head(sorted)>> \o InsertByY(Tail(sorted), c)

\* the children left in document order
DocumentOrder(cs) == cs

RECURSIVE SortByY(_)
SortByY(cs) == IF cs = <<>> THEN <<>> ELSE InsertByY(SortByY(SubSeq(cs, 1, Len(cs) - 1)), cs[Len(cs)])


\* a node as processNode builds it; type, name and members are undefined in the code
NodeAt(cell, geometry) ==
    [id |-> cell.id, label |-> cleanLabel(cell.value),
     shape |-> parseShapeFromStyle(cell.style),
     type |-> "undefined", name |-> <<>>, members |-> <<>>, style |-> cell.style,
     x |-> geometry.x, y |-> geometry.y,
     width |-> geometry.width, height |-> geometry.height]
PlainNode(cell) == NodeAt(cell, getGeometry(cell))

Bold(t) == <<"*","*">> \o t \o <<"*","*">>
separatorLine == <<"-","-","-","-","-","-","-","-","-","-","-","-","-","-","-","-">>

\* the texts of the vertex children of a group, in sorted order, empty ones dropped
NonEmptyTexts(vs) == SelectSeq([i \in 1..Len(vs) |-> cleanLabel(vs[i].value)], IsNonEmpty)
ChildLabels(children) == NonEmptyTexts(SelectSeq(children, LAMBDA c : c.vertex = "1"))

\* second pass, one group: the state [nodes, processed] after it
swimlane == <<"s","w","i","m","l","a","n","e">>
\* nodes.push({...}) when mergedLabelParts is not empty; the children are consumed
GroupMerged(st, groupCell, geometry, groupLabel, childrenLabels, mergedLabelParts, consumed, isClassResult) ==
    IF Len(mergedLabelParts) > 0
    THEN [nodes |-> Append(st.nodes,
              [id |-> groupCell.id, label |-> Join(mergedLabelParts, <<"<","b","r","/",">">>),
               shape |-> IF isClassResult THEN "class" ELSE "rectangle",
               type |-> IF isClassResult THEN "class" ELSE "node",
               name |-> IF groupLabel # <<>> THEN groupLabel ELSE <<"C","l","a","s","s">>,
               members |-> childrenLabels, style |-> groupCell.style,
               x |-> geometry.x, y |-> geometry.y,
               width |-> geometry.width, height |-> geometry.height]),
          processed |-> st.processed \cup consumed \cup {groupCell.id}]
    ELSE [st EXCEPT !.processed = @ \cup consumed]
\* mergedLabelParts and isClassResult
GroupParts(st, groupCell, groupLabel, childrenLabels, titleParts, consumed) ==
    GroupMerged(st, groupCell, getGeometry(groupCell), groupLabel, childrenLabels,
                titleParts \o (IF Len(childrenLabels) > 0
                               THEN (IF titleParts # <<>> THEN <<separatorLine>> ELSE <<>>)
                                    \o childrenLabels
                               ELSE <<>>),
                consumed,
                \/ (groupLabel # <<>> /\ Len(childrenLabels) > 0)
                \/ (Len(childrenLabels) > 0 /\ Includes(groupCell.style, swimlane)))
GroupTitled(st, groupCell, groupLabel, childrenLabels, consumed) ==
    GroupParts(st, groupCell, groupLabel, childrenLabels,
               IF groupLabel # <<>> THEN <<Bold(groupLabel)>> ELSE <<>>, consumed)
\* without a title the first child text becomes the title
GroupPromoted(st, groupCell, label0, labels0, promote, consumed) ==
    GroupTitled(st, groupCell, IF promote THEN labels0[1] ELSE label0,
                IF promote THEN Tail(labels0) ELSE labels0, consumed)
GroupLabelled(st, groupCell, children, label0, labels0) ==
    GroupPromoted(st, groupCell, label0, labels0, label0 = <<>> /\ Len(labels0) > 0,
                  {children[i].id : i \in {k \in 1..Len(children) : children[k].vertex = "1"}})
GroupOf(st, groupCell, children) ==
    GroupLabelled(st, groupCell, children, cleanLabel(groupCell.value), ChildLabels(children))
GroupWith(cells, st, groupCell) ==
    IF groupCell.vertex # "1" \/ Includes(groupCell.style, swimlane) THEN st
    ELSE GroupOf(st, groupCell, SortByY(ChildrenOf(cells, groupCell.id)))
MergeGroup(cells, groupId, st) ==
    IF ~HasCell(cells, groupId) THEN st ELSE GroupWith(cells, st, CellOf(cells, groupId))

RECURSIVE GroupPass(_, _, _)
GroupPass(cells, groupIds, st) ==
    IF groupIds = <<>> THEN st
    ELSE GroupPass(cells, Tail(groupIds), MergeGroup(cells, Head(groupIds), st))

\* edgeMap.get(id): the edge entered last under id (0 when there is none)
EdgeIndex(edges, id) == IF \E i \in 1..Len(edges) : edges[i].id = id
                        THEN MaxOf({i \in 1..Len(edges) : edges[i].id = id}) ELSE 0

\* edge.label = edge.label ? `${edge.label} ${newLabel}` : newLabel   (if newLabel)
AppendLabel(edges, k, newLabel) ==
    IF newLabel = <<>> THEN edges
    ELSE [edges EXCEPT ![k].label = IF @ # <<>> THEN @ \o <<" ">> \o newLabel ELSE newLabel]

\* third pass: is cell a floating label of an edge cell?
IsEdgeLabel3(cells, cell) ==
    /\ cell.vertex = "1" /\ cell.connectable = "0"
    /\ cell.parent # <<>> /\ HasCell(cells, cell.parent)
    /\ CellOf(cells, cell.parent).edge = "1"

\* third pass, one cell
LabelEdge(st, k, label) == IF k # 0 THEN [st EXCEPT !.edges = AppendLabel(@, k, label)] ELSE st
ThirdPassWith(cells, cell, st, label) ==
    IF cell.id \in st.processed THEN st
    ELSE IF IsEdgeLabel3(cells, cell)
    THEN LabelEdge(st, IF cell.parent # <<>> THEN EdgeIndex(st.edges, cell.parent) ELSE 0, label)
    ELSE IF cell.vertex = "1" /\ cell.parent # <<"0">>
    THEN [st EXCEPT !.nodes = Append(@, PlainNode(cell))]
    ELSE IF cell.edge = "1"
    THEN [st EXCEPT !.edges = Append(@, [id |-> cell.id, source |-> cell.source,
                                         target |-> cell.target, label |-> label,
                                         style |-> cell.style])]
    ELSE st
ThirdPassCell(cells, cell, st) == ThirdPassWith(cells, cell, st, cleanLabel(cell.value))

RECURSIVE ThirdPass(_, _, _)
ThirdPass(cells, i, st) ==
    IF i > Len(cells) THEN st ELSE ThirdPass(cells, i + 1, ThirdPassCell(cells, cells[i], st))

\* fourth pass, one cell: isLabel is vertex, connectable = 0, parent, edgeMap.has(parent)
FourthPassAt(cell, edges, k) ==
    IF cell.vertex = "1" /\ cell.connectable = "0" /\ cell.parent # <<>> /\ k # 0
    THEN AppendLabel(edges, k, cleanLabel(cell.value))
    ELSE edges
FourthPassCell(cell, edges) == FourthPassAt(cell, edges, EdgeIndex(edges, cell.parent))

RECURSIVE FourthPass(_, _, _)
FourthPass(cells, i, edges) ==
    IF i > Len(cells) THEN edges ELSE FourthPass(cells, i + 1, FourthPassCell(cells[i], edges))

\* the passes of parseDrawioXML over the elements of the selected graph
PassFourth(cells, t) ==
    [nodes |-> t.nodes, edges |-> FourthPass(cells, 1, t.edges), processed |-> t.processed]
PassThird(cells, g) ==
    PassFourth(cells, ThirdPass(cells, 1, [nodes |-> g.nodes, edges |-> <<>>,
                                           processed |-> g.processed]))
PassSecond(cells) ==
    PassThird(cells, GroupPass(cells, GroupIds(cells, <<>>), [nodes |-> <<>>, processed |-> {}]))
PassFirst(raw) == PassSecond([i \in 1..Len(raw) |-> NormalizeCell(raw[i])])
ParseCells(els) == PassFirst(cellElements(els))

\* doc.querySelectorAll('diagram')[pageIndex] || diagrams[0]   (0 = undefined)
SelectedPage(doc, pageIndex) ==
    IF pageIndex + 1 \in 1..Len(doc.pages) THEN pageIndex + 1
    ELSE IF Len(doc.pages) > 0 THEN 1 ELSE 0

\* the cells found when the whole <mxfile> document is parsed as the graph
AllModelCells(doc) ==
    Concat([i \in 1..Len(doc.pages) |-> IF doc.pages[i].model THEN doc.pages[i].cells ELSE <<>>])

\* the three decoders applied to a text that is not XML already: each returns or throws
atobReturns(content) == content.decode # "fail"
inflateRawReturns(content) == content.decode \in {"inflated", "percent"}
decodeURIComponentReturns(content) == content.decode = "inflated"

ContentReturned(value) == [status |-> "ok", error |-> "none", value |-> value]
ContentThrown == [status |-> "error", error |-> "Decode", value |-> "none"]

\* a decoder without the inner try: the failure of a later stage is raised
decodeDrawioContentStrict(content) ==
    IF content.text = "xml" THEN ContentReturned("content")
    ELSE IF atobReturns(content) /\ inflateRawReturns(content) /\ decodeURIComponentReturns(content)
    THEN ContentReturned("inflated")
    ELSE ContentThrown

\* decodeDrawioContent(content): the value returned is the content itself, the inflated
\* and percent-decoded text, or the base64-decoded text
decodeDrawioContent(content) ==
    IF content.text = "xml" THEN ContentReturned("content")
    ELSE IF atobReturns(content) /\ inflateRawReturns(content) /\ decodeURIComponentReturns(content)
    THEN ContentReturned("inflated")
    ELSE IF atobReturns(content) THEN ContentReturned("base64")
    ELSE ContentThrown

\* index.toString()
RECURSIVE toString(_)
toString(n) ==
    IF n < 10 THEN <<DigitSeq[n + 1]>> ELSE toString(n \div 10) \o <<DigitSeq[(n % 10) + 1]>>

\* doc.querySelectorAll('diagram') of getDrawioPages, which does not look for a
\* parsererror: of a malformed file the reader keeps the elements before the error,
\* or none of them
DiagramsFound(doc) ==
    IF doc.outerOk THEN {doc.pages} ELSE {SubSeq(doc.pages, 1, n) : n \in 0..Len(doc.pages)}

SinglePage == << [id |-> <<"0">>, name |-> <<"P","a","g","e"," ","1">>] >>
PageEntry(diagram, index) ==
    [id |-> IF diagram.id # <<>> THEN diagram.id ELSE toString(index),
     name |-> IF diagram.name # <<>> THEN diagram.name
              ELSE <<"P","a","g","e"," ">> \o toString(index + 1),
     index |-> index]

\* getDrawioPages(xmlContent), diagrams being what the reader finds
getDrawioPages(doc, diagrams) ==
    IF ~doc.mxfile THEN SinglePage
    ELSE IF Len(diagrams) = 0 THEN SinglePage
    ELSE [i \in 1..Len(diagrams) |-> PageEntry(diagrams[i], i - 1)]

\* lines 93-137: the text handed to the second parseFromString, as the reader sees it:
\* status "ok" with well-formedness and cells, or the error thrown before
PageToParse(doc, page) ==
    IF page.text \notin {"none", "xml"} /\ decodeDrawioContent(page).status = "error"
    THEN [status |-> "error", error |-> "Decode", wellFormed |-> FALSE, cells |-> <<>>]
    ELSE IF page.model
    THEN [status |-> "ok", wellFormed |-> TRUE, cells |-> page.cells]
    ELSE IF page.text = "none"
    THEN [status |-> "ok", wellFormed |-> TRUE, cells |-> AllModelCells(doc)]
    ELSE IF page.text = "blank"
    THEN [status |-> "ok", wellFormed |-> FALSE, cells |-> <<>>]
    ELSE [status |-> "ok", wellFormed |-> page.wellFormed, cells |-> page.cells]
SelectedToParse(doc, k) ==
    IF k = 0 THEN [status |-> "ok", wellFormed |-> TRUE, cells |-> AllModelCells(doc)]
    ELSE PageToParse(doc, doc.pages[k])
XmlToParse(doc, pageIndex) ==
    IF ~doc.mxfile
    THEN [status |-> "ok", wellFormed |-> doc.pages[1].wellFormed, cells |-> doc.pages[1].cells]
    ELSE IF ~doc.outerOk THEN [status |-> "error", error |-> "XmlParse", wellFormed |-> FALSE,
                               cells |-> <<>>]
    ELSE SelectedToParse(doc, SelectedPage(doc, pageIndex))

ErrorGraph(kind) == [status |-> "error", error |-> kind, nodes |-> <<>>, edges |-> <<>>]

\* return { nodes, edges, nodeMap }
GraphParsed(g) == [status |-> "ok", error |-> "none", nodes |-> g.nodes, edges |-> g.edges]

\* a parser that does not look for a parsererror after the second parseFromString
XmlUnchecked(x) ==
    IF x.status = "error" THEN ErrorGraph(x.error) ELSE GraphParsed(ParseCells(x.cells))
parseDrawioXMLNoCheck(doc, pageIndex) == XmlUnchecked(XmlToParse(doc, pageIndex))

\* parseDrawioXML(xmlContent, options)
XmlChecked(x) ==
    IF x.status = "error" THEN ErrorGraph(x.error)
    ELSE IF ~x.wellFormed THEN ErrorGraph("XmlParse")
    ELSE GraphParsed(ParseCells(x.cells))
parseDrawioXML(doc, pageIndex) == XmlChecked(XmlToParse(doc, pageIndex))


----------------------------------------------------------------------------
(* Draw.io to Mermaid: src/src/converters/drawioToMermaid.js               *)

sequenceWords == << <<"r","e","q","u","e","s","t">>, <<"r","e","s","p","o","n","s","e">>, <<"c","a","l","l">> >>
classWords == << <<"c","l","a","s","s">>, <<"i","n","t","e","r","f","a","c","e">> >>

IncludesAny(text, words) == \E k \in 1..Len(words) : Includes(text, words[k])

isClassDiagram(nodes) ==
    \E i \in 1..Len(nodes) :
        \/ nodes[i].type = "class"
        \/ (nodes[i].label # <<>> /\ IncludesAny(nodes[i].label, classWords))

hasSequencePatterns(edges) ==
    \E i \in 1..Len(edges) : edges[i].label # <<>> /\ IncludesAny(edges[i].label, sequenceWords)

\* a classifier that tests the class patterns first
detectClassFirst(nodes, edges) ==
    IF isClassDiagram(nodes) THEN "class"
    ELSE IF hasSequencePatterns(edges) THEN "sequence"
    ELSE "flowchart"

detectDiagramType(nodes, edges) ==
    IF hasSequencePatterns(edges) THEN "sequence"
    ELSE IF isClassDiagram(nodes) THEN "class"
    ELSE "flowchart"

\* id.replace(/\s+/g, '_'): each run of white space becomes one underscore
RECURSIVE SpacesToUnderscore(_, _)
SpacesToUnderscore(s, i) ==
    IF i > Len(s) THEN <<>>
    ELSE IF s[i] \in WhiteSpace \cup {"\n"}
    THEN IF i > 1 /\ s[i - 1] \in WhiteSpace \cup {"\n"} THEN SpacesToUnderscore(s, i + 1)
         ELSE <<"_">> \o SpacesToUnderscore(s, i + 1)
    ELSE <<s[i]>> \o SpacesToUnderscore(s, i + 1)

IsIdChar(c) == c \in IdChar

Named(sanitized) == IF sanitized = <<>> THEN <<"n","o","d","e">> ELSE sanitized
KeptId(kept) == Named(IF kept # <<>> /\ kept[1] \in Digit THEN <<"n","_">> \o kept ELSE kept)
sanitizeId(id) ==
    IF id = <<>> THEN <<"n","o","d","e">>
    ELSE KeptId(SelectSeq(SpacesToUnderscore(id, 1), IsIdChar))

BreakingChars == {"(", ")", "[", "]", "{", "}", "\"", "'", "|", ";"}

RECURSIVE ReplaceChar(_, _, _)
ReplaceChar(s, c, by) ==
    IF s = <<>> THEN <<>>
    ELSE (IF Head(s) = c THEN by ELSE <<Head(s)>>) \o ReplaceChar(Tail(s), c, by)

escapeMermaidLabel(label) ==
    IF label = <<>> THEN <<>>
    ELSE IF \E i \in 1..Len(label) : label[i] \in BreakingChars
    THEN <<"\"">> \o ReplaceChar(label, "\"", <<"#","q","u","o","t",";">>) \o <<"\"">>
    ELSE label

shapeBrackets == <<
    [shape |-> "diamond",       open |-> <<"{">>,  close |-> <<"}">>],
    [shape |-> "circle",        open |-> <<"(","(">>, close |-> <<")",")">>],
    [shape |-> "rounded",       open |-> <<"(">>,  close |-> <<")">>],
    [shape |-> "stadium",       open |-> <<"(","[">>, close |-> <<"]",")">>],
    [shape |-> "subroutine",    open |-> <<"[","[">>, close |-> <<"]","]">>],
    [shape |-> "cylinder",      open |-> <<"[","(">>, close |-> <<")","]">>],
    [shape |-> "hexagon",       open |-> <<"{","{">>, close |-> <<"}","}">>],
    [shape |-> "parallelogram", open |-> <<"[","/">>, close |-> <<"/","]">>],
    [shape |-> "asymmetric",    open |-> <<">">>,  close |-> <<"]">>] >>

ShapedText(id, label, hits) ==
    IF hits = {} THEN id \o <<"[">> \o label \o <<"]">>
    ELSE id \o shapeBrackets[MinOf(hits)].open \o label \o shapeBrackets[MinOf(hits)].close
NodeText(node, id) ==
    ShapedText(id, escapeMermaidLabel(IF node.label # <<>> THEN node.label ELSE id),
               {k \in 1..Len(shapeBrackets) : shapeBrackets[k].shape = node.shape})
formatFlowchartNode(node) == NodeText(node, sanitizeId(node.id))

flowchartArrow(style) ==
    IF style = <<>> THEN <<"-","-",">">>
    ELSE IF Includes(style, <<"d","a","s","h","e","d">>) THEN <<"-",".","-",">">>
    ELSE IF Includes(style, <<"s","t","r","o","k","e","W","i","d","t","h","=","2">>) \/ Includes(style, <<"s","t","r","o","k","e","W","i","d","t","h","=","3">>) THEN <<"=","=",">">>
    ELSE <<"-","-",">">>

EdgeText(edge, source, arrow, target) ==
    IF edge.label # <<>>
    THEN source \o <<" ">> \o arrow \o <<"|">> \o escapeMermaidLabel(edge.label)
         \o <<"|"," ">> \o target
    ELSE source \o <<" ">> \o arrow \o <<" ">> \o target
formatFlowchartEdge(edge) ==
    EdgeText(edge, sanitizeId(edge.source), flowchartArrow(edge.style), sanitizeId(edge.target))

Indent(text) == <<" "," "," "," ">> \o text

\* the edges each generator writes a line for
HasEndpoints(e) == e.source # <<>> /\ e.target # <<>>
FlowchartEmits(nodes, e) ==
    HasEndpoints(e) /\ HasNode(nodes, e.source) /\ HasNode(nodes, e.target)
SequenceEmits(nodes, e) == HasEndpoints(e)
ClassEmits(nodes, e) == HasEndpoints(e)

\* the output: lines are the entries of the lines array (joined by '\n' in the
\* code), emitted the edges written
FlowchartText(nodes, edges, direction, emitted) ==
    [kind |-> "flowchart",
     lines |-> << <<"f","l","o","w","c","h","a","r","t"," ">> \o direction, <<>> >>
               \o [i \in 1..Len(nodes) |-> Indent(formatFlowchartNode(nodes[i]))]
               \o (IF Len(edges) > 0 THEN << <<>> >> ELSE <<>>)
               \o [i \in 1..Len(emitted) |-> Indent(formatFlowchartEdge(emitted[i]))],
     emitted |-> emitted]
generateFlowchart(nodes, edges, direction) ==
    FlowchartText(nodes, edges, direction, SelectSeq(edges, LAMBDA e : FlowchartEmits(nodes, e)))

sequenceArrow(style) == IF style # <<>> /\ Includes(style, <<"d","a","s","h","e","d">>) THEN <<"-","-",">",">">> ELSE <<"-",">",">">>

ParticipantLine(n, id) ==
    (IF n.shape = "circle" THEN <<"a","c","t","o","r"," ">>
     ELSE <<"p","a","r","t","i","c","i","p","a","n","t"," ">>)
    \o id \o <<" ","a","s"," ">>
    \o escapeMermaidLabel(IF n.label # <<>> THEN n.label ELSE id)
MessageLine(e) ==
    sanitizeId(e.source) \o sequenceArrow(e.style) \o sanitizeId(e.target) \o <<":"," ">>
    \o escapeMermaidLabel(IF e.label # <<>> THEN e.label ELSE <<"m","e","s","s","a","g","e">>)
SequenceText(nodes, emitted) ==
    [kind |-> "sequence",
     lines |-> << <<"s","e","q","u","e","n","c","e","D","i","a","g","r","a","m">>, <<>> >>
               \o [i \in 1..Len(nodes) |-> Indent(ParticipantLine(nodes[i], sanitizeId(nodes[i].id)))]
               \o << <<>> >>
               \o [i \in 1..Len(emitted) |-> Indent(MessageLine(emitted[i]))],
     emitted |-> emitted]
generateSequenceDiagram(nodes, edges) ==
    SequenceText(nodes, SelectSeq(edges, LAMBDA e : SequenceEmits(nodes, e)))

\* rawName.replace(/\*\*/g, '')
RECURSIVE RemoveStars(_, _)
RemoveStars(s, i) ==
    IF i > Len(s) THEN <<>>
    ELSE IF LitAt(s, i, <<"*","*">>) THEN RemoveStars(s, i + 2)
    ELSE <<s[i]>> \o RemoveStars(s, i + 1)

classRelation(style) ==
    IF style = <<>> THEN <<"-","-",">">>
    ELSE IF Includes(style, <<"e","n","d","A","r","r","o","w","=","d","i","a","m","o","n","d","T","h","i","n">>) \/ Includes(style, <<"e","n","d","A","r","r","o","w","=","d","i","a","m","o","n","d">>)
    THEN <<"o","-","-">>
    ELSE IF Includes(style, <<"e","n","d","A","r","r","o","w","=","b","l","o","c","k">>) /\ Includes(style, <<"d","a","s","h","e","d">>) THEN <<".",".","|",">">>
    ELSE IF Includes(style, <<"e","n","d","A","r","r","o","w","=","b","l","o","c","k">>) THEN <<"-","-","|",">">>
    ELSE IF Includes(style, <<"d","a","s","h","e","d">>) THEN <<".",".",">">>
    ELSE <<"-","-",">">>

ClassBlock(node, classDef) ==
    IF Len(node.members) > 0
    THEN << Indent(classDef \o <<" ","{">>) >>
         \o [i \in 1..Len(node.members) |-> Indent(Indent(Trim(node.members[i])))]
         \o << Indent(<<"}">>) >>
    ELSE << Indent(classDef) >>
ClassQuoted(node, id, displayName, nameNeedsQuotes) ==
    ClassBlock(node, IF nameNeedsQuotes
                     THEN <<"c","l","a","s","s"," ">> \o id \o <<"[","\"">> \o displayName
                          \o <<"\"","]">>
                     ELSE <<"c","l","a","s","s"," ">> \o id)
ClassDisplay(node, id, displayName) ==
    ClassQuoted(node, id, displayName,
                (\E i \in 1..Len(displayName) : displayName[i] \notin IdChar)
                \/ displayName # id)
ClassNamed(node, id) ==
    ClassDisplay(node, id, RemoveStars(IF node.name # <<>> THEN node.name
                                       ELSE IF node.label # <<>> THEN node.label ELSE id, 1))
classLines(node) == ClassNamed(node, sanitizeId(node.id))

RelationLine(e) ==
    sanitizeId(e.source) \o <<" ">> \o classRelation(e.style) \o <<" ">> \o sanitizeId(e.target)
    \o (IF e.label # <<>> THEN <<" ",":"," ">> \o escapeMermaidLabel(e.label) ELSE <<>>)
ClassText(nodes, emitted) ==
    [kind |-> "class",
     lines |-> << <<"c","l","a","s","s","D","i","a","g","r","a","m">>, <<>> >>
               \o Concat([i \in 1..Len(nodes) |-> classLines(nodes[i])])
               \o << <<>> >>
               \o [i \in 1..Len(emitted) |-> Indent(RelationLine(emitted[i]))],
     emitted |-> emitted]
generateClassDiagram(nodes, edges) ==
    ClassText(nodes, SelectSeq(edges, LAMBDA e : ClassEmits(nodes, e)))

\* a property of the options object that is not given
undefinedText == <<"undefined">>

NoText == [kind |-> "none", lines |-> <<>>, emitted |-> <<>>]

\* convertDrawioToMermaid(xmlContent, options); options.pageIndex is passed on to the parser
MermaidGenerated(g, options, type) ==
    [status |-> "ok", error |-> "none", graph |-> g,
     text |-> CASE type = "sequence" -> generateSequenceDiagram(g.nodes, g.edges)
                [] type = "class" -> generateClassDiagram(g.nodes, g.edges)
                [] OTHER -> generateFlowchart(g.nodes, g.edges, options.direction)]
\* a converter that always follows the classifier
MermaidDetected(g, options, detectedType) == MermaidGenerated(g, options, detectedType)
MermaidTyped(g, options, detectedType) ==
    MermaidGenerated(g, options, IF options.diagramType = "auto" THEN detectedType
                                 ELSE options.diagramType)
MermaidConverted(g, options) ==
    IF g.status = "error"
    THEN [status |-> "error", error |-> g.error, graph |-> g, text |-> NoText]
    ELSE IF Len(g.nodes) = 0
    THEN [status |-> "error", error |-> "NoNodesDrawio", graph |-> g, text |-> NoText]
    ELSE MermaidTyped(g, options, detectDiagramType(g.nodes, g.edges))
\* const { direction = 'TD', diagramType = 'flowchart' } = options: a default replaces
\* a property that is undefined
Destructured(options) ==
    [options EXCEPT !.direction = IF @ = undefinedText THEN <<"T","D">> ELSE @,
                    !.diagramType = IF @ = "undefined" THEN "flowchart" ELSE @]
convertDrawioToMermaid(doc, options) ==
    MermaidConverted(parseDrawioXML(doc, options.pageIndex), Destructured(options))


----------------------------------------------------------------------------
(* Inputs.  A Mermaid input is written from a structured source: a header  *)
(* and items, an item being a statement (node declarations joined by link  *)
(* operators) or a raw line.  What the author declared is read off the     *)
(* source, what the parser finds is read off the rendered text.            *)

MaxStmts == 2
MaxCells == 3
MaxNodes == 5
MaxEdges == 2

Decl(id, open, label, close) == [id |-> id, open |-> open, label |-> label, close |-> close]
Link(lit, label) == [lit |-> lit, label |-> label]
Stmt(decls, links, tight) ==
    [kind |-> "stmt", decls |-> decls, links |-> links, tight |-> tight, text |-> <<>>]
Raw(text) == [kind |-> "raw", decls |-> <<>>, links |-> <<>>, tight |-> FALSE, text |-> text]

RenderDecl(d) == d.id \o d.open \o d.label \o d.close
RenderLink(l, tight) ==
    (IF tight THEN <<>> ELSE <<" ">>) \o l.lit
    \o (IF l.label # <<>> THEN <<"|">> \o l.label \o <<"|">> ELSE <<>>)
    \o (IF tight THEN <<>> ELSE <<" ">>)

RECURSIVE RenderChain(_, _, _)
RenderChain(decls, links, tight) ==
    IF links = <<>> THEN RenderDecl(decls[1])
    ELSE RenderDecl(decls[1]) \o RenderLink(links[1], tight)
         \o RenderChain(Tail(decls), Tail(links), tight)

RenderItem(it) == IF it.kind = "stmt" THEN RenderChain(it.decls, it.links, it.tight) ELSE it.text

\* the text of a source, as code.split('\n') sees it
RenderSource(src) == <<src.header>> \o [i \in 1..Len(src.items) |-> RenderItem(src.items[i])]

\* what the author declared: the distinct node ids and the hops, in order
DeclaredIds(src) ==
    UNION {{src.items[i].decls[j].id : j \in 1..Len(src.items[i].decls)} :
              i \in 1..Len(src.items)}
DeclaredHops(src) ==
    Concat([i \in 1..Len(src.items) |->
              [j \in 1..Len(src.items[i].links) |->
                  [source |-> src.items[i].decls[j].id, target |-> src.items[i].decls[j + 1].id,
                   label |-> src.items[i].links[j].label]]])

\* the declarations and operators the inputs are written with
dA == Decl(<<"A">>, <<>>, <<>>, <<>>)
dB == Decl(<<"B">>, <<>>, <<>>, <<>>)
dC == Decl(<<"C">>, <<>>, <<>>, <<>>)
dStart == Decl(<<"A">>, <<"[">>, <<"S","t","a","r","t">>, <<"]">>)
dCheck == Decl(<<"B">>, <<"{">>, <<"C","h","e","c","k">>, <<"}">>)
dDash == Decl(<<"C">>, <<"[">>, <<"a","-","b">>, <<"]">>)

ShapedDecls == <<
    dStart,
    Decl(<<"B">>, <<"(">>, <<"r">>, <<")">>),
    Decl(<<"C">>, <<"(","[">>, <<"s">>, <<"]",")">>),
    Decl(<<"A">>, <<"[","[">>, <<"t">>, <<"]","]">>),
    Decl(<<"B">>, <<"[","(">>, <<"c">>, <<")","]">>),
    Decl(<<"C">>, <<"{","{">>, <<"h">>, <<"}","}">>),
    dCheck,
    Decl(<<"C">>, <<"(","(">>, <<"x">>, <<")",")">>),
    Decl(<<"A">>, <<">">>, <<"x">>, <<"]">>),
    Decl(<<"B">>, <<"[","/">>, <<"p">>, <<"/","]">>),
    dC >>

arrowOp == <<"-","-",">">>
lineOp == <<"-","-","-">>
dottedOp == <<"-",".","-",">">>
thickOp == <<"=","=",">">>

HopStmts == <<
    Stmt(<<dStart, dCheck>>, <<Link(arrowOp, <<>>)>>, TRUE),
    Stmt(<<dA, dB>>, <<Link(arrowOp, <<"y","e","s">>)>>, FALSE),
    Stmt(<<dB, dC>>, <<Link(lineOp, <<>>)>>, FALSE),
    Stmt(<<dA, dC>>, <<Link(lineOp, <<"l">>)>>, TRUE),
    Stmt(<<dB, dC>>, <<Link(dottedOp, <<>>)>>, TRUE),
    Stmt(<<dC, dA>>, <<Link(dottedOp, <<"d">>)>>, FALSE),
    Stmt(<<dA, dB>>, <<Link(thickOp, <<>>)>>, FALSE),
    Stmt(<<dB, dStart>>, <<Link(thickOp, <<"a","-","b">>)>>, FALSE),
    Stmt(<<dA, dA>>, <<Link(arrowOp, <<>>)>>, FALSE),
    Stmt(<<dDash, dB>>, <<Link(arrowOp, <<>>)>>, FALSE),
    Stmt(<<dA, dB, dC>>, <<Link(arrowOp, <<>>), Link(arrowOp, <<>>)>>, FALSE),
    Stmt(<<dA, dDash, dB>>, <<Link(arrowOp, <<"x">>), Link(thickOp, <<>>)>>, TRUE),
    Stmt(<<dStart, dCheck, dC, dA>>, <<Link(lineOp, <<>>), Link(dottedOp, <<>>), Link(arrowOp, <<>>)>>, FALSE) >>

\* lines that declare nothing: a subgraph opening and closing, a direction, a comment,
\* a blank line
StructuralLines == << Raw(<<"s","u","b","g","r","a","p","h"," ","S"," ","[","L","a","b","]">>), Raw(<<"e","n","d">>), Raw(<<"T","D">>), Raw(<<"%","%"," ","n","o","t","e">>),
                      Raw(<<>>) >>

\* declarations without an id, which make parseNodeFromPart read the clock
AnonymousLines == << Raw(<<"[","x","]"," ","-","-",">"," ","C">>), Raw(<<"[","y","]">>) >>

RawLines == StructuralLines \o AnonymousLines

ItemPool == [i \in 1..Len(ShapedDecls) |-> Stmt(<<ShapedDecls[i]>>, <<>>, FALSE)]
            \o HopStmts \o RawLines

flowchartHeader == <<"f","l","o","w","c","h","a","r","t"," ","T","D">>
graphHeader == <<"g","r","a","p","h"," ","L","R">>

\* sequences of at most n items of the pool
RECURSIVE ItemSeqs(_)
ItemSeqs(n) ==
    IF n = 0 THEN {<<>>}
    ELSE ItemSeqs(n - 1)
         \cup {Append(s, ItemPool[k]) : s \in {t \in ItemSeqs(n - 1) : Len(t) = n - 1},
                                        k \in 1..Len(ItemPool)}

sequenceHeader == <<"s","e","q","u","e","n","c","e","D","i","a","g","r","a","m">>

\* message lines of a sequence diagram: <src><arrow><dst>: x, tight or with blanks
\* around the arrow
Message(src, arrow, dst, tight) == [src |-> src, arrow |-> arrow, dst |-> dst, tight |-> tight]
RenderMessage(m) ==
    m.src \o (IF m.tight THEN <<>> ELSE <<" ">>) \o m.arrow
    \o (IF m.tight THEN <<>> ELSE <<" ">>) \o m.dst \o <<":"," ","x">>
sequenceArrows == { <<"-",">",">">>, <<"-","-",">",">">>, <<"-",">">>, <<"-","-",">">> }
Messages ==
    {Message(<<"A">>, a, <<"B">>, t) : a \in sequenceArrows, t \in BOOLEAN}
    \cup {Message(<<"e","d","g","e","_","0">>, <<"-",">",">">>, <<"1">>, FALSE)}

\* participant and actor declarations, one of them of an id declared before
participantA == <<"p","a","r","t","i","c","i","p","a","n","t"," ","A">>
actorBob == <<"a","c","t","o","r"," ","B"," ","a","s"," ","B","o","b">>
SequenceDecls == { participantA, actorBob, <<"a","c","t","o","r"," ","A"," ","a","s"," ","A","l">>,
                   <<"p","a","r","t","i","c","i","p","a","n","t"," ","1">> }
SequenceLines == {Raw(RenderMessage(m)) : m \in Messages} \cup {Raw(d) : d \in SequenceDecls}

\* sequence diagrams of at most two lines, and the messages after both declarations
SequenceSources ==
    {[header |-> sequenceHeader, items |-> its] :
        its \in {<<>>} \cup {<<l>> : l \in SequenceLines}
                \cup {<<k, l>> : k \in SequenceLines, l \in SequenceLines}
                \cup {<<Raw(participantA), Raw(actorBob), Raw(RenderMessage(m))>> : m \in Messages}}

\* flowcharts, and texts without a flowchart header: the empty text, white space,
\* a comment, a headerless statement, the other diagram headers alone
MermaidSources ==
    {[header |-> flowchartHeader, items |-> its] : its \in ItemSeqs(MaxStmts)}
    \cup {[header |-> h, items |-> its] :
            h \in {graphHeader, <<>>, <<" "," ">>, <<"%","%"," ","o","n","l","y">>, <<"A"," ","-","-",">"," ","B">>,
                   sequenceHeader, <<"c","l","a","s","s","D","i","a","g","r","a","m">>},
            its \in ItemSeqs(1)}
    \cup SequenceSources

IsFlowchartSource(src) == src.header \in {flowchartHeader, graphHeader}

NoSource == [header |-> <<>>, items |-> <<>>]
Clocks == { <<"1">>, <<"1", "2">> }


\* clock readings for a source: they differ only where the clock is read
ReadsClock(src) == \E i \in 1..Len(src.items) : InSeq(AnonymousLines, src.items[i])
ClocksFor(src) == IF ReadsClock(src) THEN Clocks ELSE { <<"1">> }

\* Draw.io cells the input documents are made of
Geo(x, y) == [present |-> TRUE, x |-> x, y |-> y, width |-> 120, height |-> 60]
Vertex(id, value, style, parent, geo) ==
    Element("mxCell", id, value, style, "1", "", parent, <<>>, <<>>, "", geo)
EdgeElement(id, value, style, source, target) ==
    Element("mxCell", id, value, style, "", "1", <<"1">>, source, target, "", NoGeometry)

cFoo == Vertex(<<"P">>, <<"F","o","o">>, <<>>, <<"1">>, Geo(40, 40))
cFieldA == Vertex(<<"k","1">>, <<"a",":","i","n","t">>, <<"t","e","x","t",";">>, <<"P">>, Geo(0, 26))
cFieldB == Vertex(<<"k","2">>, <<"b",":","i","n","t">>, <<"t","e","x","t",";">>, <<"P">>, Geo(0, 52))
cUi == Vertex(<<"N">>, <<"U","i"," ","(","i","n","t","e","r","f","a","c","e",")">>, <<>>, <<"1">>, Geo(200, 40))
cGo == Vertex(<<"M">>, <<"G","o">>, <<"r","h","o","m","b","u","s",";">>, <<"1">>, Geo(200, 200))
cRequest == EdgeElement(<<"E">>, <<"A","P","I"," ","r","e","q","u","e","s","t">>, <<>>, <<"N">>, <<"M">>)
cDashed == EdgeElement(<<"F">>, <<>>, <<"d","a","s","h","e","d","=","1",";","e","n","d","A","r","r","o","w","=","b","l","o","c","k",";">>, <<"M">>, <<"k","1">>)
cLabel == [Vertex(<<"L">>, <<"x">>, <<"e","d","g","e","L","a","b","e","l",";">>, <<"E">>, NoGeometry) EXCEPT !.connectable = "0"]

CellPool == <<cFoo, cFieldA, cFieldB, cUi, cGo, cRequest, cDashed, cLabel>>

\* cells of particular hierarchies: a child of a child, a parent without label, children
\* with and without text, a labelled parent of the same id, and an mxCell wrapped in a
\* UserObject that carries the id and the label
cSub == Vertex(<<"k","3">>, <<"c">>, <<"t","e","x","t",";">>, <<"k","1">>, Geo(0, 10))
cBox == Vertex(<<"Q">>, <<>>, <<>>, <<"1">>, Geo(40, 300))
cTitled == Vertex(<<"Q">>, <<"T">>, <<>>, <<"1">>, Geo(40, 300))
cOnly == Vertex(<<"k","4">>, <<"t">>, <<"t","e","x","t",";">>, <<"Q">>, Geo(0, 26))
cBlank == Vertex(<<"k","5">>, <<>>, <<"t","e","x","t",";">>, <<"Q">>, Geo(0, 52))
cWrapped ==
    [Element("UserObject", <<"U">>, <<>>, <<>>, "", "", <<>>, <<>>, <<>>, "", NoGeometry) EXCEPT
        !.label = <<"W","e","b">>,
        !.inner = Inner(Element("mxCell", <<>>, <<>>, <<"r","o","u","n","d","e","d","=","1",";">>,
                                "1", "", <<"1">>, <<>>, <<>>, "", Geo(300, 40)))]

\* a vertex of each style parseShapeFromStyle knows, and of one it does not
unknownStyle == <<"f","o","o","=","1">>
cStyled(style) == Vertex(<<"T">>, <<"x">>, style \o <<";">>, <<"1">>, Geo(40, 500))
StyledSeqs == {<<cStyled(styleMap[k].key)>> : k \in 1..Len(styleMap)} \cup {<<cStyled(unknownStyle)>>}

\* two vertices whose ids differ in a hyphen only, and an edge between them
cLetter == Vertex(<<"a","1">>, <<"p">>, <<>>, <<"1">>, Geo(40, 600))
cHyphen == Vertex(<<"a","-","1">>, <<"q">>, <<>>, <<"1">>, Geo(240, 600))
cJoin == EdgeElement(<<"J">>, <<>>, <<>>, <<"a","-","1">>, <<"a","1">>)

\* the orders in which the cells of s can come in a file
Perms(s) == {t \in [1..Len(s) -> SeqToSet(s)] : SeqToSet(t) = SeqToSet(s)}
SpecialSeqs == { <<cFoo, cFieldA, cSub>>, <<cBox, cOnly>>, <<cBox, cBlank>>, <<cBox, cOnly, cBlank>>,
                 <<cTitled, cBlank>>, <<cTitled, cOnly>>, <<cWrapped>>, <<cWrapped, cGo>> }
               \cup StyledSeqs \cup { <<cLetter, cHyphen>>, <<cLetter, cHyphen, cJoin>> }

\* sequences of at most n distinct cells of the pool
RECURSIVE CellSeqs(_)
CellSeqs(n) ==
    IF n = 0 THEN {<<>>}
    ELSE CellSeqs(n - 1)
         \cup {Append(s, CellPool[k]) :
                 s \in {t \in CellSeqs(n - 1) : Len(t) = n - 1},
                 k \in 1..Len(CellPool)}

Distinct(s) == \A i, j \in 1..Len(s) : i # j => s[i] # s[j]

Page(text, decode, wellFormed, model, cells) ==
    [text |-> text, id |-> <<>>, name |-> <<>>, decode |-> decode, wellFormed |-> wellFormed,
     model |-> model, cells |-> cells]
\* <diagram id=".." name="..">
PageCalled(page, id, name) == [page EXCEPT !.id = id, !.name = name]

\* a bare <mxGraphModel> document
Bare(cells, wellFormed) ==
    [mxfile |-> FALSE, outerOk |-> TRUE,
     pages |-> << Page("xml", "inflated", wellFormed, FALSE, cells) >>]
File(pages, outerOk) == [mxfile |-> TRUE, outerOk |-> outerOk, pages |-> pages]

\* the empty string: no <mxfile>, and the reader reports an error for it
EmptyDocument == Bare(<<>>, FALSE)

\* the forms a file holding the cells cs can take
DocForms(cs) ==
    { Bare(cs, FALSE),
      File(<< Page("blank", "base64only", FALSE, TRUE, cs) >>, TRUE),
      File(<< Page("blank", "base64only", FALSE, TRUE, cs) >>, FALSE),
      File(<< Page("blank", "base64only", FALSE, FALSE, <<>>) >>, TRUE),
      File(<< Page("xml", "inflated", TRUE, FALSE, cs) >>, TRUE),
      File(<< Page("xml", "inflated", FALSE, FALSE, cs) >>, TRUE),
      File(<< Page("encoded", "inflated", TRUE, FALSE, cs) >>, TRUE),
      File(<< Page("encoded", "inflated", FALSE, FALSE, cs) >>, TRUE),
      File(<< Page("encoded", "base64only", TRUE, FALSE, cs) >>, TRUE),
      File(<< Page("encoded", "base64only", FALSE, FALSE, <<>>) >>, TRUE),
      File(<< Page("encoded", "fail", FALSE, FALSE, <<>>) >>, TRUE),
      File(<< Page("encoded", "percent", TRUE, FALSE, cs) >>, TRUE),
      File(<< Page("encoded", "percent", FALSE, FALSE, <<>>) >>, TRUE),
      File(<< Page("none", "inflated", FALSE, FALSE, <<>>) >>, TRUE),
      File(<<>>, TRUE),
      File(<< Page("blank", "base64only", FALSE, TRUE, <<cGo>>),
              Page("encoded", "inflated", TRUE, FALSE, cs) >>, TRUE),
      File(<< Page("xml", "inflated", FALSE, FALSE, <<>>),
              Page("blank", "base64only", FALSE, TRUE, cs) >>, TRUE),
      File(<< PageCalled(Page("blank", "base64only", FALSE, TRUE, cs), <<"p","1">>, <<"M","a","i","n">>),
              PageCalled(Page("encoded", "fail", FALSE, FALSE, <<>>), <<>>, <<"A","u","x">>),
              Page("encoded", "inflated", TRUE, FALSE, <<cGo>>) >>, TRUE),
      File(<< PageCalled(Page("xml", "inflated", TRUE, FALSE, cs), <<"p","1">>, <<>>),
              Page("encoded", "base64only", FALSE, FALSE, <<>>) >>, FALSE) }

\* well-formed bare documents over the cell sequences, and the other forms over the
\* short ones
DrawioDocs ==
    {Bare(cs, TRUE) : cs \in {s \in CellSeqs(MaxCells) : Distinct(s)}}
    \cup UNION {DocForms(cs) : cs \in CellSeqs(1)}
    \cup {Bare(cs, TRUE) : cs \in UNION {Perms(s) : s \in SpecialSeqs}}

DiagramTypes == {"auto", "flowchart", "sequence", "class"}
Options(pageIndex, diagramType, direction) ==
    [pageIndex |-> pageIndex, diagramType |-> diagramType, direction |-> direction]
\* convertDrawioToMermaid(xml): no property given; options.pageIndex || 0
DefaultOptions == Options(0, "undefined", undefinedText)

\* page indices make a difference only in a file with several pages
OptionsFor(doc) ==
    {Options(p, t, undefinedText) :
        p \in IF Len(doc.pages) > 1 THEN {0, 1, 2} ELSE {0}, t \in DiagramTypes}
    \cup {DefaultOptions, Options(0, "undefined", <<"L","R">>)}

NoDocument == [mxfile |-> FALSE, outerOk |-> FALSE, pages |-> <<>>]
NoGraph == [status |-> "none", error |-> "none", nodes |-> <<>>, edges |-> <<>>,
            diagramType |-> "none"]
NoOutcome == [status |-> "none", error |-> "none", kind |-> "none", detected |-> "none",
              emitted |-> <<>>]
NoReturn == [status |-> "none", error |-> "none", value |-> "none", pages |-> <<>>, page |-> 0]
\* drawioEmbed.js as the module is loaded: every variable null or false, nothing posted
IdleEmbed ==
    [drawioIframe |-> FALSE, messageHandler |-> FALSE, isEditorReady |-> FALSE,
     currentXml |-> "null", exportResolve |-> 0, exportTimeoutId |-> 0, exportPromise |-> 0,
     src |-> FALSE, initPending |-> FALSE, timers |-> {}, promises |-> <<>>, requests |-> <<>>,
     posted |-> 0, replies |-> 0]
IdleLayout == [nodes |-> <<>>, edges |-> <<>>, layers |-> <<>>, visited |-> {},
               currentLayer |-> <<>>, pc |-> "idle", result |-> <<>>]


\* graphs handed to the layout engine: the first n node names, and edges between them
\* or to an id that is no node
LayoutNode(i) == [id |-> <<UpperSeq[i]>>, label |-> <<UpperSeq[i]>>, shape |-> "rectangle"]
ghostId == <<"Z">>
LayoutEdge(s, t) == [id |-> <<>>, source |-> s, target |-> t, label |-> <<>>, type |-> "arrow"]

RECURSIVE EdgeSeqs(_, _)
EdgeSeqs(ids, n) ==
    IF n = 0 THEN {<<>>}
    ELSE EdgeSeqs(ids, n - 1)
         \cup {Append(s, LayoutEdge(a, b)) :
                 s \in {t \in EdgeSeqs(ids, n - 1) : Len(t) = n - 1},
                 a \in ids \cup {ghostId}, b \in ids \cup {ghostId}}

LayoutGraphs ==
    UNION {{[nodes |-> [i \in 1..n |-> LayoutNode(i)], edges |-> es] :
              es \in EdgeSeqs({<<UpperSeq[i]>> : i \in 1..n}, MaxEdges)} : n \in 1..MaxNodes}


----------------------------------------------------------------------------
(* The state machine: calls of the exported functions                      *)

GraphOf(g, type) ==
    [status |-> g.status, error |-> g.error, nodes |-> g.nodes, edges |-> g.edges,
     diagramType |-> type]
Outcome(r, kind, detected, emitted) ==
    [status |-> r.status, error |-> r.error, kind |-> kind, detected |-> detected,
     emitted |-> emitted]

\* a run starts from a Mermaid text or from a Draw.io document
InitMermaid ==
    /\ origin \in MermaidSources
    /\ code = RenderSource(origin)
    /\ clock \in ClocksFor(origin)
    /\ xml = NoDocument
    /\ opts = DefaultOptions

InitDrawio ==
    /\ origin = NoSource
    /\ code = <<>>
    /\ clock = <<"1">>
    /\ xml \in DrawioDocs
    /\ opts \in OptionsFor(xml)

Init ==
    /\ call = "none"
    /\ graph = NoGraph
    /\ out = NoOutcome
    /\ ret = NoReturn
    /\ lay = IdleLayout
    /\ embed = IdleEmbed
    /\ (InitMermaid \/ InitDrawio)

\* parseMermaidCode(code)
ParserReturns(g, type) ==
    /\ graph' = GraphOf(g, type)
    /\ out' = Outcome(g, "none", "none", <<>>)
MermaidParserReturns(g) == ParserReturns(g, g.diagramType)
ParseMermaid ==
    /\ call = "none" /\ code # <<>>
    /\ call' = "parseMermaidCode"
    /\ MermaidParserReturns(parseMermaidCode(code, clock))
    /\ UNCHANGED <<origin, code, xml, opts, clock, ret, lay, embed>>

\* convertMermaidToDrawio(code): graph holds the positioned nodes and the parsed edges,
\* out.emitted the edges written to the document
DrawioReturned(r) ==
    /\ graph' = [GraphOf(r.graph, r.graph.diagramType) EXCEPT
                    !.nodes = IF r.status = "ok" THEN r.positioned ELSE @]
    /\ out' = Outcome(r, IF r.status = "ok" THEN "drawio" ELSE "none", "none", r.edges)
    /\ xml' = IF r.status = "ok" THEN r.xml ELSE xml
MermaidToDrawio ==
    /\ call = "none" /\ code # <<>>
    /\ call' = "convertMermaidToDrawio"
    /\ DrawioReturned(convertMermaidToDrawio(code, clock))
    /\ UNCHANGED <<origin, code, opts, clock, ret, lay, embed>>

\* parseDrawioXML(xml, options)
ParseDrawio ==
    /\ call = "none" /\ code = <<>>
    /\ call' = "parseDrawioXML"
    /\ ParserReturns(parseDrawioXML(xml, opts.pageIndex), "none")
    /\ UNCHANGED <<origin, code, xml, opts, clock, ret, lay, embed>>

\* the effect of convertDrawioToMermaid(xml, options): code holds the returned text
MermaidReturned(r) ==
    /\ graph' = GraphOf(r.graph, "none")
    /\ out' = Outcome(r, r.text.kind,
                      IF r.status = "ok" THEN detectDiagramType(r.graph.nodes, r.graph.edges)
                      ELSE "none",
                      r.text.emitted)
    /\ code' = IF r.status = "ok" THEN SplitLines(Join(r.text.lines, <<"\n">>)) ELSE code
Converted(options) == MermaidReturned(convertDrawioToMermaid(xml, options))

\* convertDrawioToMermaid on an input document
DrawioToMermaid ==
    /\ call = "none" /\ code = <<>>
    /\ call' = "convertDrawioToMermaid"
    /\ Converted(opts)
    /\ UNCHANGED <<origin, xml, opts, clock, ret, lay, embed>>

\* convertDrawioToMermaid on the document convertMermaidToDrawio returned
BackToMermaid ==
    /\ call = "convertMermaidToDrawio" /\ out.status = "ok"
    /\ call' = "roundTrip"
    /\ \E t \in {"flowchart", "auto"} :
          /\ opts' = Options(0, t, undefinedText)
          /\ Converted(opts')
    /\ UNCHANGED <<origin, xml, clock, ret, lay, embed>>

\* decodeDrawioContent on the text of a <diagram> of the input file
DecodeContent ==
    /\ call = "none" /\ code = <<>> /\ xml.mxfile
    /\ call' = "decodeDrawioContent"
    /\ \E k \in 1..Len(xml.pages) :
          ret' = [status |-> decodeDrawioContent(xml.pages[k]).status,
                  error |-> decodeDrawioContent(xml.pages[k]).error,
                  value |-> decodeDrawioContent(xml.pages[k]).value,
                  pages |-> <<>>, page |-> k]
    /\ UNCHANGED <<origin, code, xml, opts, clock, graph, out, lay, embed>>

\* getDrawioPages on the input document
ListPages ==
    /\ call = "none" /\ code = <<>>
    /\ call' = "getDrawioPages"
    /\ \E diagrams \in DiagramsFound(xml) :
          ret' = [status |-> "ok", error |-> "none", value |-> "none",
                  pages |-> getDrawioPages(xml, diagrams), page |-> Len(diagrams)]
    /\ UNCHANGED <<origin, code, xml, opts, clock, graph, out, lay, embed>>

Next ==
    \/ ParseMermaid \/ MermaidToDrawio \/ ParseDrawio \/ DrawioToMermaid \/ BackToMermaid
    \/ DecodeContent \/ ListPages

Spec == Init /\ [][Next]_vars


----------------------------------------------------------------------------
(* calculateNodePositions, one loop iteration at a time                    *)

InitLayout ==
    /\ call = "calculateNodePositions"
    /\ origin = NoSource /\ code = <<>> /\ clock = <<"1">>
    /\ xml = NoDocument /\ opts = DefaultOptions
    /\ graph = NoGraph /\ out = NoOutcome /\ ret = NoReturn /\ embed = IdleEmbed
    /\ \E g \in LayoutGraphs : lay = LayoutBegin(g.nodes, g.edges)

\* one iteration of the while loop
LayoutIterate ==
    /\ lay.pc = "bfs" /\ Len(lay.currentLayer) > 0
    /\ lay' = BfsIteration(lay)
    /\ UNCHANGED <<call, origin, code, xml, opts, clock, graph, out, ret, embed>>

\* the loop exits: remaining nodes, positions, return
LayoutReturn ==
    /\ lay.pc = "bfs" /\ Len(lay.currentLayer) = 0
    /\ lay' = LayoutFinish(lay)
    /\ UNCHANGED <<call, origin, code, xml, opts, clock, graph, out, ret, embed>>

NextLayout == LayoutIterate \/ LayoutReturn

SpecLayout == InitLayout /\ [][NextLayout]_vars

\* the function runs to its return: no step of it waits for anything
SpecLayoutFair == InitLayout /\ [][NextLayout]_vars /\ WF_vars(NextLayout)


----------------------------------------------------------------------------
(* The embedded editor: src/src/editors/drawioEmbed.js                      *)

MaxRequests == 3
\* the diagrams the editor can hold
EditorXmls == {"a", "b"}

\* the payload a promise resolves with
Payload(value, source) == [xml |-> value, source |-> source]
NoPayload == Payload("null", "none")
PendingPromise == [state |-> "pending", payload |-> NoPayload, settled |-> 0]

\* settle(payload), the closure of promise p: the timer is cleared, the three variables
\* are reset, and resolve(payload) takes effect on a pending promise only
settle(e, p, payload) ==
    [e EXCEPT !.timers = @ \ {e.exportTimeoutId},
              !.exportTimeoutId = 0,
              !.exportResolve = 0,
              !.exportPromise = 0,
              !.promises[p] = [state |-> "resolved",
                               payload |-> IF @.state = "pending" THEN payload ELSE @.payload,
                               settled |-> @.settled + 1]]

\* the executor of new Promise(...) for promise p; posts tells whether postMessage returns
Unavailable(e, p) == settle(e, p, Payload(e.currentXml, "cache"))
Posted(e, p) ==
    [e EXCEPT !.exportResolve = p, !.posted = @ + 1, !.replies = @ + 1,
              !.exportTimeoutId = p, !.timers = @ \cup {p}]
Thrown(e, p) == settle([e EXCEPT !.exportResolve = p], p, Payload(e.currentXml, "cache"))
Executor(e, p, posts) ==
    IF ~e.drawioIframe \/ ~e.isEditorReady THEN Unavailable(e, p)
    ELSE IF posts THEN Posted(e, p)
    ELSE Thrown(e, p)

\* requestCurrentXml(): the promise it returns is entered in requests.  The assignment
\* exportPromise = new Promise(...) is made after the executor has run.
Created(e, p, posts) ==
    [Executor([e EXCEPT !.promises = Append(@, PendingPromise)], p, posts) EXCEPT
        !.exportPromise = p, !.requests = Append(@, p)]
requestCurrentXml(e, posts) ==
    IF e.exportPromise # 0 THEN [e EXCEPT !.requests = Append(@, e.exportPromise)]
    ELSE Created(e, Len(e.promises) + 1, posts)

\* handleDrawioMessage, case 'export' with format 'xml' and data
Exported(e, data) ==
    IF e.exportResolve # 0
    THEN settle([e EXCEPT !.currentXml = data], e.exportResolve, Payload(data, "export"))
    ELSE [e EXCEPT !.currentXml = data]

\* the callback of setTimeout
TimedOut(e) ==
    IF e.exportResolve # 0 THEN settle(e, e.exportResolve, Payload(e.currentXml, "cache")) ELSE e

\* loadDiagram(xml)
loadDiagram(e, value) ==
    IF e.isEditorReady /\ e.drawioIframe THEN [e EXCEPT !.currentXml = value]
    ELSE IF e.drawioIframe THEN [e EXCEPT !.currentXml = value, !.src = TRUE, !.initPending = TRUE]
    ELSE [e EXCEPT !.currentXml = value]

\* destroy()
destroy(e) ==
    [e EXCEPT !.messageHandler = FALSE, !.isEditorReady = FALSE, !.currentXml = "null",
              !.timers = @ \ {e.exportTimeoutId}, !.exportTimeoutId = 0,
              !.exportResolve = 0, !.exportPromise = 0]

Others == <<call, origin, code, xml, opts, clock, graph, out, ret, lay>>

InitEmbed ==
    /\ call = "drawioEmbed"
    /\ origin = NoSource /\ code = <<>> /\ clock = <<"1">>
    /\ xml = NoDocument /\ opts = DefaultOptions
    /\ graph = NoGraph /\ out = NoOutcome /\ ret = NoReturn /\ lay = IdleLayout
    /\ embed = IdleEmbed

\* initDrawioEmbed(containerId) on a page that has the container
InitDrawioEmbed ==
    /\ ~embed.drawioIframe \/ ~embed.messageHandler
    /\ embed' = [embed EXCEPT !.drawioIframe = TRUE, !.messageHandler = TRUE]
    /\ UNCHANGED Others

LoadDiagram ==
    /\ \E value \in EditorXmls : embed' = loadDiagram(embed, value)
    /\ embed' # embed
    /\ UNCHANGED Others

\* the editor, once loaded, sends the message 'init'
InitMessage ==
    /\ embed.initPending
    /\ embed' = [embed EXCEPT !.initPending = FALSE,
                              !.isEditorReady = IF embed.messageHandler THEN TRUE ELSE @]
    /\ UNCHANGED Others

\* the editor sends 'autosave' with the diagram the user has edited
AutosaveMessage ==
    /\ embed.src /\ ~embed.initPending /\ embed.messageHandler
    /\ \E value \in EditorXmls : embed' = [embed EXCEPT !.currentXml = value]
    /\ embed' # embed
    /\ UNCHANGED Others

RequestCurrentXml ==
    /\ Len(embed.requests) < MaxRequests
    /\ \E posts \in BOOLEAN : embed' = requestCurrentXml(embed, posts)
    /\ UNCHANGED Others

\* the editor answers an export request; without a listener the message is lost
ExportMessage ==
    /\ embed.replies > 0
    /\ \E data \in EditorXmls :
          embed' = IF embed.messageHandler
                   THEN Exported([embed EXCEPT !.replies = @ - 1], data)
                   ELSE [embed EXCEPT !.replies = @ - 1]
    /\ UNCHANGED Others

\* a timer set by setTimeout and not cleared runs its callback
TimerFires ==
    /\ \E t \in embed.timers : embed' = TimedOut([embed EXCEPT !.timers = @ \ {t}])
    /\ UNCHANGED Others

Destroy ==
    /\ embed' = destroy(embed)
    /\ embed' # embed
    /\ UNCHANGED Others

NextEmbed ==
    \/ InitDrawioEmbed \/ LoadDiagram \/ InitMessage \/ AutosaveMessage
    \/ RequestCurrentXml \/ ExportMessage \/ TimerFires \/ Destroy

SpecEmbed == InitEmbed /\ [][NextEmbed]_vars

\* a timer that stays set runs after EXPORT_TIMEOUT_MS; the calls of the page and the
\* messages of the editor may or may not come
SpecEmbedFair == InitEmbed /\ [][NextEmbed]_vars /\ WF_vars(TimerFires)


----------------------------------------------------------------------------
(* Properties of the parsers, the layout engine and the converters         *)

NodeIdSet(nodes) == {nodes[i].id : i \in 1..Len(nodes)}
Endpoints(edges) == {<<edges[i].source, edges[i].target>> : i \in 1..Len(edges)}

\* a flowchart text made of declarations, links and structural lines was parsed
FlowchartParsed ==
    call = "parseMermaidCode" /\ IsFlowchartSource(origin) /\ ~ReadsClock(origin)

\* C1: for a flowchart text with N distinct declared node ids and M links,
\* parseMermaidCode returns exactly N nodes, one per declared id, and exactly M edges,
\* and every returned edge runs between two of those N ids (the declared endpoints).
C1_FlowchartCounts ==
    FlowchartParsed =>
        /\ graph.status = "ok"
        /\ Len(graph.nodes) = Cardinality(DeclaredIds(origin))
        /\ NodeIdSet(graph.nodes) = DeclaredIds(origin)
        /\ Len(graph.edges) = Len(DeclaredHops(origin))
        /\ \A i \in 1..Len(graph.edges) :
              /\ graph.edges[i].source \in NodeIdSet(graph.nodes)
              /\ graph.edges[i].target \in NodeIdSet(graph.nodes)
        /\ Endpoints(graph.edges) = Endpoints(DeclaredHops(origin))

\* a chain that names one id twice: three nodes, three edges
C1_ChainParsed ==
    /\ FlowchartParsed
    /\ Len(graph.nodes) = 3
    /\ Len(graph.edges) = 3

\* C2: calculateNodePositions gives every node width 120, height 60, x > 0 and y > 0,
\* however many nodes fall in one layer.
C2_PositiveGeometry ==
    lay.pc = "done" =>
        \A i \in 1..Len(lay.result) :
            /\ lay.result[i].width = 120
            /\ lay.result[i].height = 60
            /\ lay.result[i].x > 0
            /\ lay.result[i].y > 0

\* a layer of five nodes: the first one is placed left of the origin
C2_NegativeX ==
    /\ lay.pc = "done"
    /\ \E li \in 1..Len(lay.layers) : Len(lay.layers[li]) = 5
    /\ \E i \in 1..Len(lay.result) : lay.result[i].x < 0

\* the returned node with the given id
Placed(id) == lay.result[CHOOSE i \in 1..Len(lay.result) : lay.result[i].id = id]

\* C3: after calculateNodePositions, nodes of one layer have the same y and different x,
\* neighbours in a layer being 180 apart, and y grows by 120 from each layer to the next.
C3_LayerGrid ==
    lay.pc = "done" =>
        \A li \in 1..Len(lay.layers) :
            /\ \A k \in 1..Len(lay.layers[li]) :
                  /\ Placed(lay.layers[li][k]).y = Placed(lay.layers[li][1]).y
                  /\ k > 1 => Placed(lay.layers[li][k]).x - Placed(lay.layers[li][k - 1]).x = 180
                  /\ \A m \in 1..Len(lay.layers[li]) :
                        m # k => Placed(lay.layers[li][m]).x # Placed(lay.layers[li][k]).x
            /\ li > 1 => Placed(lay.layers[li][1]).y - Placed(lay.layers[li - 1][1]).y = 120
            /\ \A lj \in 1..Len(lay.layers) :
                  lj # li => Placed(lay.layers[lj][1]).y # Placed(lay.layers[li][1]).y

\* three layers, one of them with three nodes
C3_SeveralLayers ==
    /\ lay.pc = "done"
    /\ Len(lay.layers) = 3
    /\ \E li \in 1..Len(lay.layers) : Len(lay.layers[li]) = 3

\* a well-formed bare document holding the given cells was parsed
ParsedCells(cs) ==
    /\ call = "parseDrawioXML"
    /\ ~xml.mxfile /\ xml.pages[1].wellFormed
    /\ cs \subseteq SeqToSet(xml.pages[1].cells)

\* C4: parent cell "Foo" with the vertex children "a:int" (y = 26) and "b:int" (y = 52)
\* yields exactly one node for the three cells, class-like, named "Foo", with
\* members ["a:int", "b:int"], in whatever document order the three cells come.
C4_GroupMerged ==
    ParsedCells({cFoo, cFieldA, cFieldB}) =>
        /\ graph.status = "ok"
        /\ Cardinality({i \in 1..Len(graph.nodes) :
                          graph.nodes[i].id \in {<<"P">>, <<"k","1">>, <<"k","2">>}}) = 1
        /\ \E i \in 1..Len(graph.nodes) :
              /\ graph.nodes[i].id = <<"P">>
              /\ graph.nodes[i].type = "class"
              /\ graph.nodes[i].shape = "class"
              /\ graph.nodes[i].name = <<"F","o","o">>
              /\ graph.nodes[i].members = << <<"a",":","i","n","t">>, <<"b",":","i","n","t">> >>

\* the children precede the parent, the lower child first
C4_ChildrenFirst ==
    /\ ParsedCells({cFoo, cFieldA, cFieldB})
    /\ xml.pages[1].cells = <<cFieldB, cFieldA, cFoo>>
    /\ Len(graph.nodes) = 1
    /\ graph.nodes[1].members = << <<"a",":","i","n","t">>, <<"b",":","i","n","t">> >>

\* C5: the text "x" of a floating label cell is appended to the label "API request" of
\* its parent edge exactly once, whether the label cell comes before or after the edge.
C5_LabelOnce ==
    ParsedCells({cRequest, cLabel}) =>
        /\ graph.status = "ok"
        /\ \E i \in 1..Len(graph.edges) : graph.edges[i].id = <<"E">>
        /\ \A i \in 1..Len(graph.edges) :
              graph.edges[i].id = <<"E">> =>
                  graph.edges[i].label = <<"A","P","I"," ","r","e","q","u","e","s","t"," ","x">>

\* the label cell follows its edge: the text is appended twice
C5_LabelTwice ==
    /\ ParsedCells({cRequest, cLabel})
    /\ \E i \in 1..Len(graph.edges) :
          graph.edges[i].label
              = <<"A","P","I"," ","r","e","q","u","e","s","t"," ","x"," ","x">>

\* convertDrawioToMermaid returned a text
MermaidReturnedOk == call \in {"convertDrawioToMermaid", "roundTrip"} /\ out.status = "ok"

SequenceVocabulary(label) ==
    \/ Includes(label, <<"r","e","q","u","e","s","t">>)
    \/ Includes(label, <<"r","e","s","p","o","n","s","e">>)
    \/ Includes(label, <<"c","a","l","l">>)
ClassVocabulary(label) ==
    \/ Includes(label, <<"c","l","a","s","s">>)
    \/ Includes(label, <<"i","n","t","e","r","f","a","c","e">>)
ClassLike(node) == node.type = "class" \/ ClassVocabulary(node.label)

\* C6: detectDiagramType answers sequence if any edge label contains "request",
\* "response" or "call"; otherwise class if any node is typed class or its label contains
\* "class" or "interface"; otherwise flowchart.
C6_DetectPriority ==
    MermaidReturnedOk =>
        out.detected =
            IF \E i \in 1..Len(graph.edges) : SequenceVocabulary(graph.edges[i].label)
            THEN "sequence"
            ELSE IF \E i \in 1..Len(graph.nodes) : ClassLike(graph.nodes[i])
            THEN "class"
            ELSE "flowchart"

\* a sequence-vocabulary edge beside a class-like node
C6_SequenceWins ==
    /\ MermaidReturnedOk
    /\ out.detected = "sequence"
    /\ \E i \in 1..Len(graph.nodes) : ClassLike(graph.nodes[i])

\* a text without a non-comment line: blank or comment header, blank or comment lines
BlankOrComment(line) ==
    line \in {<<>>, <<" "," ">>, <<"%","%"," ","o","n","l","y">>, <<"%","%"," ","n","o","t","e">>}
EmptyMermaid ==
    /\ code # <<>>
    /\ BlankOrComment(origin.header)
    /\ \A i \in 1..Len(origin.items) :
          origin.items[i].kind = "raw" /\ BlankOrComment(origin.items[i].text)
MermaidCalled == call \in {"parseMermaidCode", "convertMermaidToDrawio"}
DrawioCalled == call \in {"parseDrawioXML", "convertDrawioToMermaid"}
ConvertCalled == call \in {"convertMermaidToDrawio", "convertDrawioToMermaid", "roundTrip"}

\* C7 as stated: empty input raises, a conversion of zero nodes raises, and no parse or
\* convert call returns normally with a graph of zero nodes.
C7_NeverZeroNodes ==
    /\ MermaidCalled /\ EmptyMermaid => out.status = "error"
    /\ DrawioCalled /\ xml = EmptyDocument => out.status = "error"
    /\ call # "none" /\ out.status = "ok" => Len(graph.nodes) > 0

\* C7, amended: empty input raises in both parsers; a conversion whose parse returned zero
\* nodes raises the no-nodes error, so no convert call returns normally with zero nodes.
\* (A parse call may return zero nodes for a non-empty input.)
C7_EmptyRaises ==
    /\ MermaidCalled /\ EmptyMermaid => out.status = "error" /\ out.error = "EmptyMermaid"
    /\ DrawioCalled /\ xml = EmptyDocument => out.status = "error" /\ out.error = "XmlParse"
    /\ ConvertCalled /\ graph.status = "ok" /\ Len(graph.nodes) = 0 =>
          out.status = "error" /\ out.error \in {"NoNodesMermaid", "NoNodesDrawio"}
    /\ ConvertCalled /\ out.status = "ok" => Len(graph.nodes) > 0

\* a header without statements converts to the no-nodes error
C7_HeaderOnly ==
    /\ call = "convertMermaidToDrawio"
    /\ origin.header = flowchartHeader /\ origin.items = <<>>
    /\ graph.status = "ok" /\ Len(graph.nodes) = 0
    /\ out.status = "error" /\ out.error = "NoNodesMermaid"

\* the XML reader reports a parse error for the <mxfile> document or for the selected
\* page's graph content
PageMalformed(page) ==
    /\ ~page.model
    /\ page.text # "none"
    /\ ~(page.text = "encoded" /\ page.decode = "fail")
    /\ (page.text = "blank" \/ ~page.wellFormed)
ReaderReportsError ==
    \/ ~xml.mxfile /\ ~xml.pages[1].wellFormed
    \/ xml.mxfile /\ ~xml.outerOk
    \/ /\ xml.mxfile /\ xml.outerOk /\ Len(xml.pages) > 0
       /\ PageMalformed(xml.pages[SelectedPage(xml, opts.pageIndex)])

\* C8: whenever the XML reader reports a parse error, at <mxfile> level or for the
\* selected page's content, parseDrawioXML raises and returns no graph.
C8_MalformedRaises ==
    call = "parseDrawioXML" /\ ReaderReportsError =>
        /\ graph.status = "error"
        /\ graph.error = "XmlParse"
        /\ graph.nodes = <<>> /\ graph.edges = <<>>

\* a page index past the last page selects the first page, whose content is malformed
C8_PageMalformed ==
    /\ call = "parseDrawioXML"
    /\ xml.mxfile /\ xml.outerOk
    /\ Len(xml.pages) = 2 /\ opts.pageIndex = 2
    /\ ~xml.pages[1].wellFormed /\ ~xml.pages[1].model
    /\ ReaderReportsError
    /\ graph.status = "error"

\* C9: every serializer emits an edge only if both its source and its target are ids of
\* nodes of the serialized graph: the Draw.io output of convertMermaidToDrawio and the
\* flowchart, sequence and class outputs of convertDrawioToMermaid.
C9_EmittedEndpoints ==
    ConvertCalled /\ out.status = "ok" =>
        \A i \in 1..Len(out.emitted) :
            /\ out.emitted[i].source \in NodeIdSet(graph.nodes)
            /\ out.emitted[i].target \in NodeIdSet(graph.nodes)

\* a class diagram with a relation to an id that is no node
C9_DanglingRelation ==
    /\ call = "convertDrawioToMermaid" /\ out.status = "ok"
    /\ out.kind = "class"
    /\ \E i \in 1..Len(out.emitted) : out.emitted[i].target \notin NodeIdSet(graph.nodes)

\* the structure of a parsed flowchart: ids with shape and label, edges with label
NodeFacts(nodes) ==
    {[id |-> nodes[i].id, shape |-> nodes[i].shape, label |-> nodes[i].label] :
        i \in 1..Len(nodes)}
EdgeFacts(edges) ==
    {[source |-> edges[i].source, target |-> edges[i].target, label |-> edges[i].label] :
        i \in 1..Len(edges)}
SameStructure(g, h) ==
    /\ NodeFacts(g.nodes) = NodeFacts(h.nodes)
    /\ EdgeFacts(g.edges) = EdgeFacts(h.edges)
    /\ Len(g.edges) = Len(h.edges)

\* a flowchart went to Draw.io and back to a flowchart
RoundTripped ==
    /\ call = "roundTrip" /\ out.status = "ok" /\ out.kind = "flowchart"
    /\ IsFlowchartSource(origin) /\ ~ReadsClock(origin)

\* C10: a Mermaid flowchart converted to Draw.io and back to a Mermaid flowchart has the
\* same node ids, each with the same shape and label, and the same edges with the same
\* source, target and label.
C10_RoundTrip ==
    RoundTripped =>
        SameStructure(parseMermaidCode(code, clock), parseMermaidCode(RenderSource(origin), clock))

\* the asymmetric node A>x] comes back as the rectangle A[x]
C10_ShapeLost ==
    /\ RoundTripped
    /\ \E i \in 1..Len(parseMermaidCode(RenderSource(origin), clock).nodes) :
          parseMermaidCode(RenderSource(origin), clock).nodes[i].shape = "asymmetric"
    /\ \A i \in 1..Len(parseMermaidCode(code, clock).nodes) :
          parseMermaidCode(code, clock).nodes[i].shape # "asymmetric"

\* the diagram kind asked for: the option, flowchart when none is given
KindAsked == IF opts.diagramType = "undefined" THEN "flowchart" ELSE opts.diagramType
DirectionAsked == IF opts.direction = undefinedText THEN <<"T","D">> ELSE opts.direction

\* C11: convertDrawioToMermaid follows the classifier only when diagramType is 'auto';
\* with flowchart, sequence or class, or with none given (flowchart), the output is of
\* that kind whatever the classifier detects. A flowchart output starts with the line
\* "flowchart <direction>", the direction being TD when none is given.
C11_TypeOverride ==
    MermaidReturnedOk =>
        /\ out.kind = IF opts.diagramType = "auto" THEN out.detected ELSE KindAsked
        /\ out.kind = "flowchart" =>
              code[1] = <<"f","l","o","w","c","h","a","r","t"," ">> \o DirectionAsked
        /\ out.kind = "sequence" =>
              code[1] = <<"s","e","q","u","e","n","c","e","D","i","a","g","r","a","m">>
        /\ out.kind = "class" => code[1] = <<"c","l","a","s","s","D","i","a","g","r","a","m">>

\* no option given, a graph the classifier takes for another kind: a TD flowchart
C11_DefaultFlowchart ==
    /\ MermaidReturnedOk
    /\ opts = DefaultOptions
    /\ out.detected \in {"sequence", "class"}
    /\ out.kind = "flowchart"
    /\ code[1] = <<"f","l","o","w","c","h","a","r","t"," ","T","D">>


\* the <diagram> text decodeDrawioContent was applied to
DecodedContent == xml.pages[ret.page]
DecodeCalled == call = "decodeDrawioContent"

\* C12: decodeDrawioContent returns a text that starts with '<' unchanged; of any other
\* text it returns the base64-decoded, inflated and percent-decoded form when all three
\* stages succeed, the base64-decoded form alone when inflating or percent-decoding
\* fails, and raises the decode error only when base64-decoding itself fails.
C12_DecodeFallback ==
    DecodeCalled =>
        /\ DecodedContent.text = "xml" => ret.status = "ok" /\ ret.value = "content"
        /\ DecodedContent.text # "xml" /\ DecodedContent.decode = "inflated"
              => ret.status = "ok" /\ ret.value = "inflated"
        /\ DecodedContent.text # "xml" /\ DecodedContent.decode \in {"percent", "base64only"}
              => ret.status = "ok" /\ ret.value = "base64"
        /\ DecodedContent.text # "xml" /\ DecodedContent.decode = "fail"
              => ret.status = "error" /\ ret.error = "Decode"

\* an encoded text whose inflated form is not percent-decodable comes back base64-decoded
C12_PercentFails ==
    /\ DecodeCalled
    /\ DecodedContent.text = "encoded" /\ DecodedContent.decode = "percent"
    /\ ret.status = "ok" /\ ret.value = "base64"


PagesCalled == call = "getDrawioPages"
HasProperties(entry) == {"id", "name", "index"} \subseteq DOMAIN entry

\* C13: getDrawioPages returns, for every input document, a non-empty list of pages in
\* document order, every entry of which has an id, a name and an index, the index being
\* the entry's 0-based position; documents without <mxfile> and files without <diagram>
\* included.
C13_PagesIndexed ==
    PagesCalled =>
        /\ Len(ret.pages) > 0
        /\ \A i \in 1..Len(ret.pages) :
              /\ HasProperties(ret.pages[i])
              /\ ret.pages[i].index = i - 1

\* the page listed for a bare <mxGraphModel> document has no index
C13_BarePageNoIndex ==
    /\ PagesCalled /\ ~xml.mxfile
    /\ Len(ret.pages) = 1
    /\ DOMAIN ret.pages[1] = {"id", "name"}

\* the pages of a file with <diagram> elements are numbered from 0 in document order,
\* with the id and name attributes or their defaults
C13_DiagramsIndexed ==
    PagesCalled /\ xml.mxfile /\ ret.page > 0 =>
        /\ Len(ret.pages) = ret.page
        /\ \A i \in 1..Len(ret.pages) :
              /\ HasProperties(ret.pages[i])
              /\ ret.pages[i].index = i - 1
              /\ ret.pages[i].id = IF xml.pages[i].id # <<>> THEN xml.pages[i].id ELSE toString(i - 1)


\* the shape each bracket syntax names, by its opening bracket
BracketShape(open) ==
    CASE open = <<"[">> -> "rectangle"
      [] open = <<"(">> -> "rounded"
      [] open = <<"(","[">> -> "stadium"
      [] open = <<"[","[">> -> "subroutine"
      [] open = <<"[","(">> -> "cylinder"
      [] open = <<"{","{">> -> "hexagon"
      [] open = <<"{">> -> "diamond"
      [] open = <<"(","(">> -> "circle"
      [] open = <<">">> -> "asymmetric"
      [] open = <<"[","/">> -> "parallelogram"
      [] OTHER -> "none"

\* the i-th line of the text is a lone declaration id<open>label<close> of an id that no
\* earlier line declares
FirstShapedDecl(i) ==
    /\ origin.items[i].kind = "stmt"
    /\ Len(origin.items[i].decls) = 1
    /\ origin.items[i].decls[1].open # <<>>
    /\ \A k \in 1..(i - 1) : \A j \in 1..Len(origin.items[k].decls) :
          origin.items[k].decls[j].id # origin.items[i].decls[1].id
ParsedAs(d, shape, label) ==
    \E n \in 1..Len(graph.nodes) :
        /\ graph.nodes[n].id = d.id
        /\ graph.nodes[n].shape = shape
        /\ graph.nodes[n].label = label

\* C14: every bracket syntax is parsed to the shape it names, with the text between the
\* brackets as label and the leading identifier as id: id[t] rectangle, id(t) rounded,
\* id([t]) stadium, id[[t]] subroutine, id[(t)] cylinder, id{{t}} hexagon, id{t}
\* diamond, id((t)) circle, id>t] asymmetric, id[/t/] parallelogram.
C14_BracketShapes ==
    FlowchartParsed =>
        \A i \in 1..Len(origin.items) :
            FirstShapedDecl(i) =>
                ParsedAs(origin.items[i].decls[1], BracketShape(origin.items[i].decls[1].open),
                         origin.items[i].decls[1].label)

\* C([s]) is parsed as a rectangle labelled s, not as a stadium
C14_StadiumAsRectangle ==
    /\ FlowchartParsed
    /\ Len(origin.items) = 1 /\ FirstShapedDecl(1)
    /\ origin.items[1].decls[1].open = <<"(","[">>
    /\ ParsedAs(origin.items[1].decls[1], "rectangle", <<"s">>)

\* the five syntaxes that no earlier pattern of the list matches inside are parsed as named
C14_OuterShapes ==
    FlowchartParsed =>
        \A i \in 1..Len(origin.items) :
            FirstShapedDecl(i)
            /\ origin.items[i].decls[1].open \in {<<"[">>, <<"(">>, <<"{","{">>, <<"{">>, <<">">>}
            => ParsedAs(origin.items[i].decls[1], BracketShape(origin.items[i].decls[1].open),
                        origin.items[i].decls[1].label)


\* the arrows of a parsed flowchart: endpoints with the arrow kind
ArrowFacts(edges) ==
    {[source |-> edges[i].source, target |-> edges[i].target, type |-> edges[i].type] :
        i \in 1..Len(edges)}

\* C15: every arrow kind of a Mermaid flowchart (-->, ---, -.->, ==>) is written to the
\* Draw.io document with a style of its own, so that converting the document back to
\* Mermaid gives every edge the arrow kind it had.
C15_ArrowKindKept ==
    RoundTripped =>
        ArrowFacts(parseMermaidCode(code, clock).edges)
            = ArrowFacts(parseMermaidCode(RenderSource(origin), clock).edges)

\* a dotted, thick or plain-line edge is written with the one style of every edge and
\* comes back as an arrow
C15_KindLost ==
    /\ RoundTripped
    /\ Len(out.emitted) = 1 /\ out.emitted[1].style = generatedEdgeStyle
    /\ \E i \in 1..Len(parseMermaidCode(RenderSource(origin), clock).edges) :
          parseMermaidCode(RenderSource(origin), clock).edges[i].type = "dotted"
    /\ \A i \in 1..Len(parseMermaidCode(code, clock).edges) :
          parseMermaidCode(code, clock).edges[i].type = "arrow"


\* the places of the layers that hold id
PlacesOf(id) ==
    {p \in UNION {{<<li, k>> : k \in 1..Len(lay.layers[li])} : li \in 1..Len(lay.layers)} :
        lay.layers[p[1]][p[2]] = id}
LayersPartition ==
    /\ \A i \in 1..Len(lay.nodes) : Cardinality(PlacesOf(lay.nodes[i].id)) = 1
    /\ \A li \in 1..Len(lay.layers) : \A k \in 1..Len(lay.layers[li]) :
          HasNode(lay.nodes, lay.layers[li][k])
UnreachedLast ==
    \A i \in 1..Len(lay.nodes) :
        lay.nodes[i].id \notin lay.visited => InSeq(lay.layers[Len(lay.layers)], lay.nodes[i].id)

\* C16: on every finite graph, with cycles, self-loops or disconnected parts, the
\* layering loop of calculateNodePositions ends, and at its end every node is in exactly
\* one layer: the nodes the loop did not reach are in the last layer, no node is in two
\* layers and none is left out.
C16_LayeringTerminates ==
    /\ <>(lay.pc = "done")
    /\ [](lay.pc = "done" => LayersPartition /\ UnreachedLast)

\* a cycle that the roots do not lead to ends up in the last layer
C16_CycleUnreached ==
    /\ lay.pc = "done"
    /\ \E i \in 1..Len(lay.nodes) : lay.nodes[i].id \notin lay.visited
    /\ \E i, j \in 1..Len(lay.edges) :
          /\ lay.edges[i].source = lay.edges[j].target /\ lay.edges[i].target = lay.edges[j].source
          /\ lay.edges[i].source \notin lay.visited
    /\ LayersPartition


\* the edges that arrive at the node id from a node of the graph
IncomingFromNodes(id) ==
    {i \in 1..Len(lay.edges) : lay.edges[i].target = id /\ HasNode(lay.nodes, lay.edges[i].source)}
RootIds == SelectSeq(Ids(lay.nodes), LAMBDA id : IncomingFromNodes(id) = {})
FirstLayerBuilt == lay.pc = "bfs" /\ Len(lay.layers) >= 1

OtherTimes == { <<"2">>, <<"2", "3">> }
SameGraph(g, h) == g.status = h.status /\ g.nodes = h.nodes /\ g.edges = h.edges
SameDrawing(r, nodes, edges) == r.status = "ok" /\ r.positioned = nodes /\ r.edges = edges

\* C18: parseMermaidCode and convertMermaidToDrawio are deterministic and keep nothing
\* between calls: called on the same text at any other time they return the same node
\* ids, labels and shapes, the same edges and the same coordinates.
C18_SameAtAnyTime ==
    /\ call = "parseMermaidCode" /\ graph.status = "ok"
          => \A c \in OtherTimes : SameGraph(parseMermaidCode(code, c), graph)
    /\ call = "convertMermaidToDrawio" /\ out.status = "ok"
          => \A c \in OtherTimes :
                SameDrawing(convertMermaidToDrawio(code, c), graph.nodes, out.emitted)

\* the declaration [y] has the id node_1 in this call and node_2 in a later one
C18_IdFromClock ==
    /\ call = "parseMermaidCode" /\ graph.status = "ok"
    /\ clock = <<"1">>
    /\ Len(graph.nodes) = 1 /\ graph.nodes[1].id = <<"n","o","d","e","_","1">>
    /\ Len(parseMermaidCode(code, <<"2">>).nodes) = 1
    /\ parseMermaidCode(code, <<"2">>).nodes[1].id = <<"n","o","d","e","_","2">>

\* a text in which every declaration has an id is parsed and laid out the same at any time
C18_SameWithIds ==
    /\ call = "parseMermaidCode" /\ graph.status = "ok" /\ ~ReadsClock(origin)
          => \A c \in OtherTimes : SameGraph(parseMermaidCode(code, c), graph)
    /\ call = "convertMermaidToDrawio" /\ out.status = "ok" /\ ~ReadsClock(origin)
          => \A c \in OtherTimes :
                SameDrawing(convertMermaidToDrawio(code, c), graph.nodes, out.emitted)


\* where the edge patterns match in a line, and the arrow kind of an operator
MatchStarts(line) == {EdgeMatchIndex(line, k) : k \in 1..Len(edgePatterns)} \ {0}
PatternsAt(line, index) == {k \in 1..Len(edgePatterns) : EdgeMatchIndex(line, k) = index}
OpType(lit) ==
    CASE lit = arrowOp -> "arrow" [] lit = lineOp -> "line"
      [] lit = dottedOp -> "dotted" [] lit = thickOp -> "thick"
FlowchartLines == call = "parseMermaidCode" /\ IsFlowchartSource(origin)
HasEdge(source, target, label, type) ==
    \E e \in 1..Len(graph.edges) :
        /\ graph.edges[e].source = source /\ graph.edges[e].target = target
        /\ graph.edges[e].label = label /\ graph.edges[e].type = type

\* C19: of the eight edge patterns, the one the line parser chooses is the one whose
\* match starts earliest in the line, and among patterns matching at the same position
\* the first declared; so the first link of a statement, labelled or not, becomes an
\* edge with the kind and the label written (-->|x| is an arrow labelled x).
C19_EarliestPattern ==
    FlowchartLines =>
        /\ \A i \in 2..Len(code) :
              IF MatchStarts(code[i]) = {} THEN FindEdge(code[i]).pattern = 0
              ELSE /\ FindEdge(code[i]).m.index = MinOf(MatchStarts(code[i]))
                   /\ FindEdge(code[i]).pattern
                        = MinOf(PatternsAt(code[i], MinOf(MatchStarts(code[i]))))
        /\ \A i \in 1..Len(origin.items) :
              origin.items[i].links # <<>> =>
                  HasEdge(origin.items[i].decls[1].id, origin.items[i].decls[2].id,
                          origin.items[i].links[1].label, OpType(origin.items[i].links[1].lit))

\* in A-->|x|C[a-b]==>B the labelled and the plain arrow pattern match at the same
\* position and the thick pattern later: the edge from A is an arrow labelled x
C19_LabelledFirst ==
    /\ FlowchartLines /\ Len(code) = 2
    /\ MatchStarts(code[2]) # {}
    /\ Cardinality(PatternsAt(code[2], MinOf(MatchStarts(code[2])))) = 2
    /\ Cardinality(MatchStarts(code[2])) = 2
    /\ FindEdge(code[2]).pattern = 1
    /\ HasEdge(<<"A">>, <<"C">>, <<"x">>, "arrow")


\* the j-th hop of the i-th statement of the text is an edge of the graph, with the
\* arrow kind and the label of its operator
HopParsed(i, j) ==
    HasEdge(origin.items[i].decls[j].id, origin.items[i].decls[j + 1].id,
            origin.items[i].links[j].label, OpType(origin.items[i].links[j].lit))

\* C20: a line n0 op1 n1 ... opk nk produces exactly k edges, the i-th hop running from
\* n(i-1) to n(i) with the arrow kind and label of op(i), and registers all its nodes;
\* a line in which no edge pattern matches produces no edge and at most one node.
C20_ChainHops ==
    /\ FlowchartParsed =>
          /\ Len(graph.edges) = Len(DeclaredHops(origin))
          /\ \A i \in 1..Len(origin.items) : \A j \in 1..Len(origin.items[i].links) :
                HopParsed(i, j)
          /\ DeclaredIds(origin) \subseteq NodeIdSet(graph.nodes)
    /\ FlowchartLines /\ Len(code) = 2 /\ MatchStarts(code[2]) = {} =>
          Len(graph.edges) = 0 /\ Len(graph.nodes) <= 1

\* A[Start] --- B{Check} -.-> C --> A gives three edges: a line, a dotted and an arrow
C20_ThreeHops ==
    /\ FlowchartParsed /\ Len(origin.items) = 1 /\ Len(origin.items[1].links) = 3
    /\ Len(graph.edges) = 3 /\ Len(graph.nodes) = 3
    /\ HasEdge(<<"A">>, <<"B">>, <<>>, "line")
    /\ HasEdge(<<"B">>, <<"C">>, <<>>, "dotted")
    /\ HasEdge(<<"C">>, <<"A">>, <<>>, "arrow")


SequenceParsed == call = "parseMermaidCode" /\ origin \in SequenceSources /\ graph.status = "ok"
\* the i-th line of the text is the message m
IsMessageLine(i, m) == i <= Len(code) /\ code[i] = RenderMessage(m)
MessageEdge(m) ==
    \E e \in 1..Len(graph.edges) :
        graph.edges[e].source = m.src /\ graph.edges[e].target = m.dst

\* C21: in a sequence diagram every message line <src><arrow><dst>: <label>, the arrow
\* being ->>, -->>, -> or -->, with or without blanks around it, yields one edge from
\* exactly <src> to exactly <dst>; a declared endpoint is not registered again, so when
\* both endpoints are declared the nodes are exactly the declared participants.
C21_MessageEndpoints ==
    SequenceParsed =>
        /\ \A m \in Messages : \A i \in 2..Len(code) : IsMessageLine(i, m) => MessageEdge(m)
        /\ Len(graph.edges)
             = Cardinality({i \in 2..Len(code) : \E m \in Messages : IsMessageLine(i, m)})
        /\ Len(code) = 4 /\ code[2] = participantA /\ code[3] = actorBob
              => NodeIdSet(graph.nodes) = {<<"A">>, <<"B">>} /\ Len(graph.nodes) = 2

\* A-->>B: x after the declarations of A and B: the edge starts at "A-", which is
\* registered as a third participant
C21_SourceWithDash ==
    /\ SequenceParsed
    /\ Len(code) = 4 /\ code[2] = participantA /\ code[3] = actorBob
    /\ code[4] = <<"A","-","-",">",">","B",":"," ","x">>
    /\ Len(graph.edges) = 1 /\ graph.edges[1].source = <<"A","-">>
    /\ Len(graph.nodes) = 3 /\ graph.nodes[3].id = <<"A","-">>

\* the messages written with ->> or ->, tight or with blanks, yield their edge from
\* <src> to <dst>
C21_SolidArrows ==
    SequenceParsed =>
        \A m \in Messages : \A i \in 2..Len(code) :
            IsMessageLine(i, m) /\ m.arrow \in {<<"-",">",">">>, <<"-",">">>} => MessageEdge(m)


\* the normalized cells of the bare document parsed, and the cell carrying an id
InputCells == [i \in 1..Len(cellElements(xml.pages[1].cells)) |-> NormalizeCell(cellElements(xml.pages[1].cells)[i])]
BareParsed == call = "parseDrawioXML" /\ ~xml.mxfile /\ xml.pages[1].wellFormed /\ graph.status = "ok"
IsNode(id) == \E n \in 1..Len(graph.nodes) : graph.nodes[n].id = id
NodesOf(id) == {n \in 1..Len(graph.nodes) : graph.nodes[n].id = id}
\* cell i is a vertex child of a vertex cell that is no swimlane, and the parent's group
\* was merged into a node
MemberOfMerged(i) ==
    /\ InputCells[i].vertex = "1" /\ IsGroupChild(InputCells[i])
    /\ \E g \in 1..Len(InputCells) :
          /\ InputCells[g].id = InputCells[i].parent
          /\ InputCells[g].vertex = "1" /\ ~Includes(InputCells[g].style, swimlane)
    /\ IsNode(InputCells[i].parent)

\* C22: no cell consumed as a member of a merged group is also a node of the graph
\* parseDrawioXML returns, in every cell hierarchy, a child that is itself the parent of
\* further cells included.
C22_MembersNotNodes ==
    BareParsed => \A i \in 1..Len(InputCells) : MemberOfMerged(i) => ~IsNode(InputCells[i].id)

\* k1 is a member of the group P and the parent of k3: it is returned as a node of its
\* own, next to P
C22_NestedMemberEmitted ==
    /\ BareParsed /\ SeqToSet(xml.pages[1].cells) = {cFoo, cFieldA, cSub}
    /\ IsNode(<<"P">>) /\ IsNode(<<"k","1">>) /\ ~IsNode(<<"k","3">>)
    /\ \E n \in NodesOf(<<"P">>) : InSeq(graph.nodes[n].members, <<"a",":","i","n","t">>)

\* a member that is not itself the parent of a vertex is never a node
C22_LeafMembersNotNodes ==
    BareParsed =>
        \A i \in 1..Len(InputCells) :
            MemberOfMerged(i)
            /\ (\A k \in 1..Len(InputCells) :
                    ~(InputCells[k].vertex = "1" /\ InputCells[k].parent = InputCells[i].id))
            => ~IsNode(InputCells[i].id)


\* the vertex children of the cell with this id, in document order, and the texts the
\* group pass reads from them
VertexChildren(id) == SelectSeq(InputCells, LAMBDA c : c.vertex = "1" /\ c.parent = id)
ChildTexts(id) == SelectSeq([k \in 1..Len(VertexChildren(id)) |-> cleanLabel(VertexChildren(id)[k].value)], LAMBDA t : t # <<>>)
\* the member list of the group: the children's non-empty texts, minus the first when the
\* parent has no label
MemberList(g) ==
    IF cleanLabel(InputCells[g].value) = <<>> /\ ChildTexts(InputCells[g].id) # <<>>
    THEN Tail(ChildTexts(InputCells[g].id))
    ELSE ChildTexts(InputCells[g].id)
\* cell g is a vertex parent that is no swimlane, of vertex children that are no parents
IsFlatGroup(g) ==
    /\ InputCells[g].vertex = "1" /\ ~Includes(InputCells[g].style, swimlane)
    /\ ~IsGroupChild(InputCells[g])
    /\ VertexChildren(InputCells[g].id) # <<>>
    /\ \A k \in 1..Len(InputCells) : IsGroupChild(InputCells[k]) => InputCells[k].parent = InputCells[g].id

\* C23: a vertex parent that is no swimlane yields exactly one node of shape class when
\* its member list is not empty; when the list is empty the group yields no node and each
\* vertex child is returned as a node of its own.
C23_GroupOrChildren ==
    BareParsed =>
        \A g \in 1..Len(InputCells) :
            IsFlatGroup(g) =>
                IF MemberList(g) # <<>>
                THEN /\ Cardinality(NodesOf(InputCells[g].id)) = 1
                     /\ \A n \in NodesOf(InputCells[g].id) : graph.nodes[n].shape = "class"
                ELSE \A k \in 1..Len(VertexChildren(InputCells[g].id)) :
                        IsNode(VertexChildren(InputCells[g].id)[k].id)

\* the parent Q has no label and the single child k4 has the text t: the text becomes the
\* title, the member list is empty, and k4 is returned nowhere
C23_ChildLost ==
    /\ BareParsed /\ SeqToSet(xml.pages[1].cells) = {cBox, cOnly}
    /\ ~IsNode(<<"k","4">>)
    /\ \E n \in NodesOf(<<"Q">>) : graph.nodes[n].shape = "rectangle" /\ graph.nodes[n].label = Bold(<<"t">>)
                                   /\ graph.nodes[n].members = <<>>

\* with a member list that is not empty the group yields exactly one node of shape class
C23_OneClassNode ==
    BareParsed =>
        \A g \in 1..Len(InputCells) :
            IsFlatGroup(g) /\ MemberList(g) # <<>> =>
                /\ Cardinality(NodesOf(InputCells[g].id)) = 1
                /\ \A n \in NodesOf(InputCells[g].id) : graph.nodes[n].shape = "class"


\* the document in which the cells at positions i and j have changed places, and the
\* graph parseDrawioXML returns for it
Swapped(cs, i, j) == [k \in 1..Len(cs) |-> IF k = i THEN cs[j] ELSE IF k = j THEN cs[i] ELSE cs[k]]
GraphOfSwapped(i, j) == parseDrawioXML(Bare(Swapped(xml.pages[1].cells, i, j), TRUE), 0)
\* cell j is a floating label of the edge cell i
IsLabelOf(cs, j, i) ==
    /\ cs[i].tag = "mxCell" /\ cs[i].edge = "1" /\ cs[i].id # <<>>
    /\ cs[j].vertex = "1" /\ cs[j].connectable = "0" /\ cs[j].parent = cs[i].id
LabelsOf(g, id) == {g.edges[e].label : e \in {k \in 1..Len(g.edges) : g.edges[k].id = id}}

\* C24: the label of an edge does not depend on the order of the elements: the document
\* in which an edge and its floating label cell have changed places yields the same label
\* for that edge.
C24_LabelOrderFree ==
    BareParsed =>
        \A i, j \in 1..Len(xml.pages[1].cells) :
            IsLabelOf(xml.pages[1].cells, j, i) =>
                LabelsOf(graph, xml.pages[1].cells[i].id)
                    = LabelsOf(GraphOfSwapped(i, j), xml.pages[1].cells[i].id)

\* the label cell L comes first and the edge E is labelled "API request x"; with the two
\* in the other order E is labelled "API request x x"
C24_OrderChangesLabel ==
    /\ BareParsed /\ xml.pages[1].cells = <<cLabel, cRequest>>
    /\ LabelsOf(graph, <<"E">>) = {<<"A","P","I"," ","r","e","q","u","e","s","t"," ","x">>}
    /\ LabelsOf(GraphOfSwapped(1, 2), <<"E">>)
          = {<<"A","P","I"," ","r","e","q","u","e","s","t"," ","x"," ","x">>}

\* the labels of the edges that have no floating label cell do not depend on the place of
\* any two cells that are no members of a group
C24_PlainEdgesOrderFree ==
    BareParsed =>
        \A i, j \in 1..Len(xml.pages[1].cells) :
            (\A k \in 1..Len(xml.pages[1].cells) :
                 xml.pages[1].cells[k].tag = "mxCell" /\ ~IsGroupChild(NormalizeCell(xml.pages[1].cells[k])))
            => \A e \in 1..Len(graph.edges) :
                  LabelsOf(graph, graph.edges[e].id) = LabelsOf(GraphOfSwapped(i, j), graph.edges[e].id)


\* C25: every node parseDrawioXML returns has an id that is not empty, no two nodes have
\* the same id, and a UserObject enclosing an mxCell yields exactly one node, with the id
\* of the UserObject.
C25_NodeIdsUnique ==
    BareParsed =>
        /\ \A n \in 1..Len(graph.nodes) : graph.nodes[n].id # <<>>
        /\ \A m, n \in 1..Len(graph.nodes) : graph.nodes[m].id = graph.nodes[n].id => m = n
        /\ InSeq(xml.pages[1].cells, cWrapped) =>
              Cardinality(NodesOf(<<"U">>)) = 1

\* the document holds the wrapped cell alone: the node U labelled "Web" is returned, and a
\* second node without id and without label for the enclosed mxCell
C25_InnerCellEmitted ==
    /\ BareParsed /\ xml.pages[1].cells = <<cWrapped>>
    /\ Len(graph.nodes) = 2
    /\ \E n \in NodesOf(<<"U">>) : graph.nodes[n].label = <<"W","e","b">> /\ graph.nodes[n].shape = "rounded"
    /\ \E n \in 1..2 : graph.nodes[n].id = <<>> /\ graph.nodes[n].label = <<>>

\* in a document of mxCell elements with distinct ids the nodes have distinct ids, none
\* of them empty
C25_PlainIdsUnique ==
    BareParsed /\ (\A k \in 1..Len(xml.pages[1].cells) : xml.pages[1].cells[k].tag = "mxCell") =>
        /\ \A n \in 1..Len(graph.nodes) : graph.nodes[n].id # <<>>
        /\ \A m, n \in 1..Len(graph.nodes) : graph.nodes[m].id = graph.nodes[n].id => m = n


CanonicalShapes == {"rectangle", "rounded", "stadium", "subroutine", "cylinder", "hexagon", "diamond",
                    "circle", "parallelogram", "asymmetric", "class", "subgraph"}
ParserReturned == call \in {"parseMermaidCode", "parseDrawioXML"} /\ graph.status = "ok"
KnownStyle(style) == \E k \in 1..Len(styleMap) : Includes(style, styleMap[k].key)

\* C26: every node either parser returns has one of the canonical shapes, and a node of
\* parseDrawioXML whose style includes none of the known keys is a rectangle.
C26_CanonicalShapes ==
    ParserReturned =>
        \A n \in 1..Len(graph.nodes) :
            /\ graph.nodes[n].shape \in CanonicalShapes
            /\ call = "parseDrawioXML" /\ graph.nodes[n].shape # "class" /\ ~KnownStyle(graph.nodes[n].style)
               => graph.nodes[n].shape = "rectangle"

\* the cell T has the style "shape=cloud;" and is returned with the shape cloud
C26_CloudShape ==
    /\ BareParsed
    /\ xml.pages[1].cells = <<cStyled(<<"s","h","a","p","e","=","c","l","o","u","d">>)>>
    /\ Len(graph.nodes) = 1 /\ graph.nodes[1].shape = "cloud"

\* the nodes of parseMermaidCode have canonical shapes; those of parseDrawioXML have
\* canonical shapes or one of triangle, document and cloud, and rectangle when the style
\* includes no known key
C26_ShapesOfStyleMap ==
    ParserReturned =>
        \A n \in 1..Len(graph.nodes) :
            /\ call = "parseMermaidCode" => graph.nodes[n].shape \in CanonicalShapes
            /\ graph.nodes[n].shape \in CanonicalShapes \cup {"triangle", "document", "cloud"}
            /\ call = "parseDrawioXML" /\ graph.nodes[n].shape # "class" /\ ~KnownStyle(graph.nodes[n].style)
               => graph.nodes[n].shape = "rectangle"


\* id, label and shape of the nodes, and the nodes the parser holds after the first k lines
Mentions(nodes) == [n \in 1..Len(nodes) |-> [id |-> nodes[n].id, label |-> nodes[n].label, shape |-> nodes[n].shape]]
NodesAfter(k) == Mentions(parseMermaidCode(SubSeq(code, 1, k), clock).nodes)
IsPrefixOf(s, t) == Len(s) <= Len(t) /\ SubSeq(t, 1, Len(s)) = s
ParserReturnedNodes == call = "parseMermaidCode" /\ graph.status = "ok"

\* C27: in the Mermaid parsers a node is created when its id is first seen and never
\* changed: no two nodes have the same id, and the nodes held after any first lines of
\* the text are, unchanged and in the same order, the first nodes of the graph returned.
C27_FirstMentionKept ==
    ParserReturnedNodes =>
        /\ \A m, n \in 1..Len(graph.nodes) : graph.nodes[m].id = graph.nodes[n].id => m = n
        /\ \A k \in 1..Len(code) : IsPrefixOf(NodesAfter(k), Mentions(graph.nodes))

\* A is declared as the rectangle "Start" and then as the subroutine "t", and the one
\* node A is the rectangle "Start"; likewise participant A, then actor A as Al
C27_SecondDeclarationIgnored ==
    /\ ParserReturnedNodes /\ Len(code) = 3 /\ code[1] = flowchartHeader
    /\ code[2] = <<"A","[","S","t","a","r","t","]">> /\ code[3] = <<"A","[","[","t","]","]">>
    /\ Mentions(graph.nodes) = <<[id |-> <<"A">>, label |-> <<"S","t","a","r","t">>, shape |-> "rectangle"]>>


\* convertMermaidToDrawio returned a document; the ids of its cells, in order
DrawioGenerated == call = "convertMermaidToDrawio" /\ out.status = "ok"
GeneratedIds == [i \in 1..Len(xml.pages[1].cells) |-> xml.pages[1].cells[i].id]

\* C28: the ids of the cells of the document convertMermaidToDrawio returns are pairwise
\* distinct: the two root cells "0" and "1", the nodes and the edges edge_0, edge_1, ...
C28_CellIdsDistinct ==
    DrawioGenerated => \A i, j \in 1..Len(GeneratedIds) : GeneratedIds[i] = GeneratedIds[j] => i = j

\* the sequence diagram with the message "edge_0 ->> 1: x": the participant 1 has the id
\* of the second root cell and the participant edge_0 the id of the edge
C28_ParticipantNamedAsRoot ==
    /\ DrawioGenerated /\ code = <<sequenceHeader, <<"e","d","g","e","_","0"," ","-",">",">"," ","1",":"," ","x">> >>
    /\ GeneratedIds = << <<"0">>, <<"1">>, <<"e","d","g","e","_","0">>, <<"1">>, <<"e","d","g","e","_","0">> >>

\* the cells of a flowchart whose nodes are named A, B, C or after the clock have
\* distinct ids
C28_FlowchartIdsDistinct ==
    DrawioGenerated /\ IsFlowchartSource(origin) =>
        \A i, j \in 1..Len(GeneratedIds) : GeneratedIds[i] = GeneratedIds[j] => i = j


\* convertDrawioToMermaid returned a flowchart of one line per node and per edge written
FlowchartReturned ==
    /\ call = "convertDrawioToMermaid" /\ out.status = "ok" /\ out.kind = "flowchart"
    /\ Len(code) = 2 + Len(graph.nodes) + (IF graph.edges = <<>> THEN 0 ELSE 1 + Len(out.emitted))
\* the lines of node n and of the k-th edge written, and the identifiers they hold
DeclarationLine(n) == Trim(code[2 + n])
EdgeLine(k) == Trim(code[3 + Len(graph.nodes) + k])
DeclaredAs(n) == IdPrefix(DeclarationLine(n))
RECURSIVE IdSuffix(_)
IdSuffix(s) == IF s = <<>> \/ s[Len(s)] \notin IdChar THEN <<>>
               ELSE Append(IdSuffix(SubSeq(s, 1, Len(s) - 1)), s[Len(s)])

\* C29: in the flowchart convertDrawioToMermaid returns, two nodes of different ids are
\* declared under different identifiers, and every edge line names its source and its
\* target by the identifiers under which those nodes are declared.
C29_IdentifiersDistinct ==
    FlowchartReturned =>
        /\ \A m, n \in 1..Len(graph.nodes) :
              graph.nodes[m].id # graph.nodes[n].id => DeclaredAs(m) # DeclaredAs(n)
        /\ \A k \in 1..Len(out.emitted) : \A n \in 1..Len(graph.nodes) :
              /\ graph.nodes[n].id = out.emitted[k].source => IdPrefix(EdgeLine(k)) = DeclaredAs(n)
              /\ graph.nodes[n].id = out.emitted[k].target => IdSuffix(EdgeLine(k)) = DeclaredAs(n)

\* the nodes a1 and a-1 are both declared as a1, and the edge from a-1 to a1 is written
\* as a loop of a1
C29_HyphenDropped ==
    /\ FlowchartReturned /\ xml.pages[1].cells = <<cLetter, cHyphen, cJoin>>
    /\ DeclarationLine(1) = <<"a","1","[","p","]">> /\ DeclarationLine(2) = <<"a","1","[","q","]">>
    /\ EdgeLine(1) = <<"a","1"," ","-","-",">"," ","a","1">>

\* every edge line names its source and its target as the declarations of those nodes do
C29_EdgesUseDeclaredIds ==
    FlowchartReturned =>
        \A k \in 1..Len(out.emitted) : \A n \in 1..Len(graph.nodes) :
            /\ graph.nodes[n].id = out.emitted[k].source => IdPrefix(EdgeLine(k)) = DeclaredAs(n)
            /\ graph.nodes[n].id = out.emitted[k].target => IdSuffix(EdgeLine(k)) = DeclaredAs(n)


\* the promise returned to the c-th call of requestCurrentXml
Requested(c) == c <= Len(embed.requests)
PromiseOf(c) == embed.promises[embed.requests[c]]
RequestResolved(c) == Requested(c) /\ PromiseOf(c).state = "resolved"
\* promise p is resolved by this step
ResolvedNow(p) ==
    /\ p <= Len(embed.promises) /\ embed.promises[p].state = "pending"
    /\ embed'.promises[p].state = "resolved"
\* what is registered belongs to a request that is pending
RegisteredPending ==
    /\ embed.exportPromise # 0 => embed.promises[embed.exportPromise].state = "pending"
    /\ embed.exportResolve # 0 => embed.promises[embed.exportResolve].state = "pending"
    /\ \A t \in embed.timers : embed.promises[t].state = "pending"
\* every promise is settled at most once
SettledOnce == \A p \in 1..Len(embed.promises) : embed.promises[p].settled <= 1
\* a promise resolved by an export message carries the source 'export' and the XML of the
\* message; one resolved otherwise carries the source 'cache' and the cached XML
ResolvedAsStated ==
    \A p \in 1..MaxRequests :
        ResolvedNow(p) =>
            IF embed'.replies < embed.replies
            THEN embed'.promises[p].payload = Payload(embed'.currentXml, "export")
            ELSE embed'.promises[p].payload = Payload(embed.currentXml, "cache")
\* a call made while a request is pending returns the pending promise and posts nothing
PendingShared ==
    Len(embed'.requests) > Len(embed.requests) /\ embed.exportPromise # 0
    /\ embed.promises[embed.exportPromise].state = "pending"
    => /\ embed'.requests[Len(embed'.requests)] = embed.exportPromise
       /\ embed'.posted = embed.posted /\ embed'.promises = embed.promises

\* C30: every call of requestCurrentXml resolves in the end, once, with the source
\* 'export' and the editor's XML when the export message comes before the timer and with
\* the source 'cache' and the cached XML otherwise; a call made while a request is
\* pending shares its promise and posts nothing; once a request is resolved no promise,
\* resolver or timer stays registered.
C30_RequestsResolve ==
    /\ \A c \in 1..MaxRequests : Requested(c) ~> RequestResolved(c)
    /\ [](SettledOnce /\ RegisteredPending)
    /\ [][ResolvedAsStated /\ PendingShared]_vars

\* a request was posted and destroy() ran before the answer and before the timer: the
\* promise is pending, and no resolver and no timer is left to resolve it
C30_PendingAfterDestroy ==
    /\ Requested(1) /\ PromiseOf(1).state = "pending"
    /\ embed.exportResolve = 0 /\ embed.timers = {} /\ embed.exportPromise = 0
    /\ ~embed.messageHandler

\* the editor was not ready: the promise was resolved from the cache inside the executor
\* and was registered as exportPromise afterwards, so that the later calls return it
C30_ResolvedStaysRegistered ==
    /\ Len(embed.requests) = 2 /\ embed.requests = <<1, 1>>
    /\ embed.promises[1].state = "resolved" /\ embed.exportPromise = 1
    /\ embed.isEditorReady /\ embed.currentXml # embed.promises[1].payload.xml

\* what holds of the claim: a promise is settled once, with the source and the XML
\* stated, a call during a pending request shares its promise and posts nothing, and a
\* resolver or a timer is registered for a pending request only
C30_SettledAsStated ==
    /\ [](SettledOnce /\ (embed.exportResolve # 0 => embed.promises[embed.exportResolve].state = "pending")
                      /\ \A t \in embed.timers : embed.promises[t].state = "pending")
    /\ [][ResolvedAsStated /\ PendingShared]_vars

\* a request resolves in the end unless destroy() took its resolver away
Abandoned(c) ==
    Requested(c) /\ PromiseOf(c).state = "pending" /\ embed.exportResolve # embed.requests[c]
C30_ResolvesUnlessDestroyed ==
    \A c \in 1..MaxRequests : Requested(c) ~> (RequestResolved(c) \/ Abandoned(c))
====
